---------------------------- MODULE Spec2Model ----------------------------
(***************************************************************************)
(* A model of kont: delimited continuations and algebraic effects.         *)
(*                                                                         *)
(* Closure form (Cont), frame form (Expr), the iterative evaluator         *)
(* evalFrames with its processors, the stepping boundary (Step, StepExpr,  *)
(* Suspension), the marker pool, the chain pool and the Affine wrapper.    *)
(*                                                                         *)
(* Go closures are defunctionalised: a user function func(x) ... is a      *)
(* term with one free variable (its parameter), a continuation             *)
(* func(a) R is the sequence of pending continuation closures.             *)
(* Heap objects with identity (markers, pooled chain nodes, suspensions)   *)
(* live in sequences indexed by their address.                             *)
(***************************************************************************)
EXTENDS Integers, Sequences, FiniteSets, TLC

(***************************************************************************)
(* Bounds of the model.                                                    *)
(***************************************************************************)
\* initial handler states are 0..MaxInit
MaxInit == 1
\* number of goroutines sharing one Affine or one Suspension
NumThreads == 3
\* number of calls the stepping client makes on its handles
MaxCalls == 3
\* number of frames in a pure frame chain
MaxChain == 6

(***************************************************************************)
(* Values flowing through the computation (Erased / Resumed).              *)
(*   int    : an integer (struct{}{} is modelled as the integer 0)         *)
(*   marker : a pointer to a genericMarker (an effectSuspension)           *)
(*   nil    : the nil interface value                                      *)
(***************************************************************************)
IntV(n) == [tag |-> "int", v |-> n, msg |-> ""]
MarkerV(id) == [tag |-> "marker", v |-> id, msg |-> ""]
NilV == [tag |-> "nil", v |-> 0, msg |-> ""]
\* a value of any other type: a Pair is the record of its Fst and Snd
AnyV(v) == [tag |-> "val", v |-> v, msg |-> ""]
Pair(Fst, Snd) == [Fst |-> Fst, Snd |-> Snd]
Unit == IntV(0)

(***************************************************************************)
(* Operations.  Get and Put are the State operations, Throw the Error      *)
(* operation.                                                              *)
(***************************************************************************)
GetOp == [o |-> "Get", v |-> 0]
PutOp(n) == [o |-> "Put", v |-> n]
ThrowOp(n) == [o |-> "Throw", v |-> n]
NilOp == [o |-> "nil", v |-> 0]
\* an operation of no effect family
composeUnhandledOp == [o |-> "Unhandled", v |-> 0]
\* the Writer operations; Listen and Censor carry the body they run
TellOp(w) == [o |-> "Tell", v |-> w]
ListenOp(Body) == [o |-> "Listen", v |-> 0, Body |-> Body]
CensorOp(F, Body) == [o |-> "Censor", v |-> 0, F |-> F, Body |-> Body]
\* Catch carries its body and its handler, a function of the error
CatchOp(Body, Handler) ==
  [o |-> "Catch", v |-> 0, Body |-> Body, Handler |-> Handler]

(***************************************************************************)
(* Source programs.  An expression is c or x + c where x is the parameter  *)
(* of the innermost enclosing user function.                               *)
(***************************************************************************)
Const(c) == [var |-> FALSE, c |-> c]
VarPlus(c) == [var |-> TRUE, c |-> c]
ExpVal(e, x) == IF e.var THEN x + e.c ELSE e.c

TRet(e) == [t |-> "Ret", e |-> e]
TGet == [t |-> "Get"]
TPut(e) == [t |-> "Put", e |-> e]
TThrow(e) == [t |-> "Throw", e |-> e]
TUnhandled == [t |-> "Unhandled"]
\* CatchError(body, handler): handler is the body of a function of the error
TCatch(body, handler) == [t |-> "Catch", body |-> body, handler |-> handler]
TBind(m, body) == [t |-> "Bind", m |-> m, body |-> body]
TMap(m, g) == [t |-> "Map", m |-> m, g |-> g]
TThen(m, n) == [t |-> "Then", m |-> m, n |-> n]
\* a computation that finishes with a nil Resumed: as a Cont, a function
\* that returns nil without calling its continuation; as an Expr, a nil
\* Value of an interface type on a Return frame
TNil == [t |-> "Nil"]
\* Bracket(acquire, release, use): release and use are the bodies of
\* functions of the resource
TBracket(acquire, release, use) ==
  [t |-> "Bracket", acquire |-> acquire, release |-> release, use |-> use]
\* the Writer effect; TRetArg is Return(x) of a function's parameter x
TTell(e) == [t |-> "Tell", e |-> e]
TListen(body) == [t |-> "Listen", body |-> body]
TCensor(F, body) == [t |-> "Censor", F |-> F, body |-> body]
TRetArg == [t |-> "RetArg"]
TRetVal(v) == [t |-> "RetVal", v |-> v]
\* Shift(f) and Reset(m).  The function given to Shift is written as an
\* expression over the captured continuation k: a literal, k applied to an
\* expression, a sum or a product.
TShift(h) == [t |-> "Shift", h |-> h]
TReset(m) == [t |-> "Reset", m |-> m]
Lit(n) == [h |-> "lit", n |-> n]
KCall(a) == [h |-> "k", a |-> a]
Add(l, r) == [h |-> "add", l |-> l, r |-> r]
Mul(l, r) == [h |-> "mul", l |-> l, r |-> r]
\* the fused constructors of the State effect
TGetState(body) == [t |-> "GetState", body |-> body]
TPutState(e, n) == [t |-> "PutState", e |-> e, n |-> n]

\* the pure functions given to Map
ApplyG(g, n) == CASE g = "inc" -> n + 1
                  [] g = "dbl" -> 2 * n
                  [] OTHER -> n

\* A user function applied to x: its body with the parameter replaced by x.
\* Bodies of nested functions have their own parameter and stay as they are.
RECURSIVE Inst(_, _)
Inst(tm, x) ==
  CASE tm.t = "Ret" -> TRet(Const(ExpVal(tm.e, x)))
    [] tm.t = "Get" -> tm
    [] tm.t = "Put" -> TPut(Const(ExpVal(tm.e, x)))
    [] tm.t = "Throw" -> TThrow(Const(ExpVal(tm.e, x)))
    [] tm.t = "Unhandled" -> tm
    [] tm.t = "Catch" -> TCatch(Inst(tm.body, x), tm.handler)
    [] tm.t = "Nil" -> tm
    [] tm.t = "Bracket" -> TBracket(Inst(tm.acquire, x), tm.release, tm.use)
    [] tm.t = "Tell" -> TTell(Const(ExpVal(tm.e, x)))
    [] tm.t = "Listen" -> TListen(Inst(tm.body, x))
    [] tm.t = "Censor" -> TCensor(tm.F, Inst(tm.body, x))
    [] tm.t = "RetArg" -> TRetVal(x)
    [] tm.t = "RetVal" -> tm
    [] tm.t = "Shift" -> tm
    [] tm.t = "Reset" -> TReset(Inst(tm.m, x))
    [] tm.t = "Bind" -> TBind(Inst(tm.m, x), tm.body)
    [] tm.t = "Map" -> TMap(Inst(tm.m, x), tm.g)
    [] tm.t = "Then" -> TThen(Inst(tm.m, x), Inst(tm.n, x))
    [] tm.t = "GetState" -> tm
    [] tm.t = "PutState" -> TPutState(Const(ExpVal(tm.e, x)), Inst(tm.n, x))


(***************************************************************************)
(* Values, continued: a panic is carried as a value so that it propagates  *)
(* through the evaluators like Go's unwinding.                             *)
(***************************************************************************)
PanicV(msg) == [tag |-> "panic", v |-> 0, msg |-> msg]
IsPanic(x) == x.tag = "panic"
IsMarker(x) == x.tag = "marker"

(***************************************************************************)
(* Frames.  Nodes built by the public constructors are immutable values    *)
(* with pooled = FALSE; a chainedFrame taken from chainPool is an address  *)
(* into M.nodes.                                                           *)
(***************************************************************************)
ReturnFrame == [t |-> "Return"]
NilFrame == [t |-> "nil"]
BindFrame(F, Next) == [t |-> "Bind", F |-> F, Next |-> Next, pooled |-> FALSE]
MapFrame(F, Next) == [t |-> "Map", F |-> F, Next |-> Next]
ThenFrame(Second, Next) ==
  [t |-> "Then", Second |-> Second, Next |-> Next, pooled |-> FALSE]
EffectFrame(Operation, Resume, Next) ==
  [t |-> "Effect", Operation |-> Operation, Resume |-> Resume, Next |-> Next,
   pooled |-> FALSE]
\* a user frame type with an Unwind method
CustomFrame(Val, Next) == [t |-> "Custom", Val |-> Val, Next |-> Next]
\* a user frame type without an Unwind method
NoUnwindFrame == [t |-> "NoUnwind"]
\* the library's UnwindFrame: three data values and a function in the
\* field Unwind; the type has the method frame() alone
UnwindFrame(Data1, Data2, Data3, Unwind) ==
  [t |-> "Unwind", Data1 |-> Data1, Data2 |-> Data2, Data3 |-> Data3,
   Unwind |-> Unwind, pooled |-> FALSE]
chainedFrame(first, rest) ==
  [t |-> "Chain", first |-> first, rest |-> rest, pooled |-> FALSE]
ChainRef(id) == [t |-> "ChainRef", id |-> id]
IsChain(f) == f.t \in {"Chain", "ChainRef"}

\* AcquireEffectFrame, AcquireBindFrame and AcquireThenFrame, with the
\* fields the caller fills in
AcquireEffectFrame(Operation, Resume, Next) ==
  [EffectFrame(Operation, Resume, Next) EXCEPT !.pooled = TRUE]
AcquireBindFrame(F, Next) == [BindFrame(F, Next) EXCEPT !.pooled = TRUE]
AcquireThenFrame(Second, Next) ==
  [ThenFrame(Second, Next) EXCEPT !.pooled = TRUE]

Expr(Value, Frame) == [Value |-> Value, Frame |-> Frame]
ExprReturn(a) == Expr(a, ReturnFrame)
ZeroV == IntV(0)

\* closures stored in frames
identityResume == [k |-> "identity", m |-> 0]
NilResume == [k |-> "nil", m |-> 0]
NilF == [k |-> "nil", body |-> TGet]
NilDeref == "nil pointer dereference"
markerResumeClosure(id) == [k |-> "marker", m |-> id]
UserF(body) == [k |-> "user", body |-> body]
FromResumedF == [k |-> "fromResumed", body |-> TGet]

(***************************************************************************)
(* The memory an evaluation works on.                                      *)
(*   nodes, cfree     : chainedFrame objects of chainPool, and the pool    *)
(*   markers, mfree   : genericMarker objects, and genericMarkerPool       *)
(*   mnew             : whether the next genericMarkerPool.Get allocates   *)
(*   susp             : Suspension objects                                 *)
(*   hs, trace        : the handler's state, and the operations it was     *)
(*                      handed, in order                                   *)
(*   invoked          : how many times a resume (marker or effect frame)   *)
(*                      was invoked                                        *)
(*   applied          : how many Bind, Map and Then continuations (frames   *)
(*                      or closures) were applied                          *)
(*   cut              : what the handler's short-circuit answered, and     *)
(*                      the length of trace and applied at that moment     *)
(*   zeroed           : the frames and chain nodes outside nodes that a    *)
(*                      release has zeroed and put into a pool             *)
(*   kept             : how many times a release found the pooled flag     *)
(*                      unset and left the object alone                    *)
(*   h                : the handler the evaluation runs under              *)
(*   calls            : the user functions called, with their argument, in *)
(*                      order                                              *)
(*   out              : the output of the Writer handler                   *)
(*   depth, deep      : how many calls of evalFrames are active, and the   *)
(*                      most that ever were                                *)
(*   early            : the kinds of pooled node from whose fields a chain *)
(*                      node was made while they were not yet put back     *)
(***************************************************************************)
NoCut == [set |-> FALSE, v |-> 0, n |-> 0, applied |-> 0]

EmptyMem ==
  [nodes |-> << >>, cfree |-> << >>, markers |-> << >>, mfree |-> << >>,
   mnew |-> FALSE, susp |-> << >>, hs |-> 0, trace |-> << >>, invoked |-> 0,
   fputs |-> 0, applied |-> 0, cut |-> NoCut, zeroed |-> {}, kept |-> 0,
   h |-> "StateError", calls |-> << >>, out |-> << >>, depth |-> 0,
   deep |-> 0, early |-> {}]

\* the user function named f is called with a
noteCall(f, a, M) == [M EXCEPT !.calls = Append(@, <<f, a>>)]

\* a Bind, Map or Then continuation is about to be applied
noteApplied(M) == [M EXCEPT !.applied = @ + 1]

noteFrame(f, M) == IF f.t \in {"Bind", "Map", "Then"} THEN noteApplied(M) ELSE M

(***************************************************************************)
(* chainPool.                                                              *)
(***************************************************************************)
ZeroNode == [first |-> NilFrame, rest |-> NilFrame, pooled |-> FALSE]

chainNode(f, M) ==
  IF f.t = "Chain" THEN (IF f \in M.zeroed THEN ZeroNode ELSE f)
  ELSE M.nodes[f.id]

\* a ChainFrames that makes a node whatever its operands are
chainAlways(first, second) == chainedFrame(first, second)

ChainFrames(first, second) ==
  IF first.t = "Return" THEN second
  ELSE IF second.t = "Return" THEN first
  ELSE chainedFrame(first, second)

\* chainPool.Get returns the node put last, or a new one.
chainFromPool(first, second, M) ==
  IF first.t = "Return" THEN [frame |-> second, M |-> M]
  ELSE IF second.t = "Return" THEN [frame |-> first, M |-> M]
  ELSE LET node == [first |-> first, rest |-> second, pooled |-> TRUE] IN
       IF M.cfree # << >>
       THEN LET id == Head(M.cfree) IN
            [frame |-> ChainRef(id),
             M |-> [M EXCEPT !.nodes[id] = node, !.cfree = Tail(M.cfree)]]
       ELSE [frame |-> ChainRef(Len(M.nodes) + 1),
             M |-> [M EXCEPT !.nodes = Append(M.nodes, node)]]

\* the release found the flag unset
keep(M) == [M EXCEPT !.kept = @ + 1]

\* the fields of cf are zeroed and cf is put into chainPool
chainZeroAndPut(cf, M) ==
  IF cf.t = "ChainRef"
  THEN [M EXCEPT !.nodes[cf.id] = ZeroNode, !.cfree = <<cf.id>> \o M.cfree]
  ELSE [M EXCEPT !.zeroed = @ \cup {cf}]

\* a release that does not look at the flag
releaseChainUnguarded(cf, M) == chainZeroAndPut(cf, M)

releaseChain(cf, M) ==
  IF ~chainNode(cf, M).pooled THEN keep(M) ELSE chainZeroAndPut(cf, M)

\* Effect, Bind and Then frames: a frame of a public constructor has
\* pooled = FALSE and is left alone; fputs counts the frames put back.
frameZeroAndPut(f, M) == [M EXCEPT !.fputs = @ + 1, !.zeroed = @ \cup {f}]

\* a frame as evaluation finds it: zeroed if a release has zeroed it
zeroFrame(f) ==
  CASE f.t = "Bind" -> [f EXCEPT !.F = NilF, !.Next = NilFrame,
                                 !.pooled = FALSE]
    [] f.t = "Then" -> [f EXCEPT !.Second = Expr(NilV, NilFrame),
                                 !.Next = NilFrame, !.pooled = FALSE]
    [] f.t = "Effect" -> [f EXCEPT !.Operation = NilOp, !.Resume = NilResume,
                                   !.Next = NilFrame, !.pooled = FALSE]
    [] OTHER -> f

live(f, M) == IF f \in M.zeroed THEN zeroFrame(f) ELSE f

\* a release that does not look at the flag
releaseFrameUnguarded(f, M) == frameZeroAndPut(f, M)

releaseEffectFrame(f, M) ==
  IF ~f.pooled THEN keep(M) ELSE frameZeroAndPut(f, M)
releaseBindFrame(f, M) ==
  IF ~f.pooled THEN keep(M) ELSE frameZeroAndPut(f, M)
releaseThenFrame(f, M) ==
  IF ~f.pooled THEN keep(M) ELSE frameZeroAndPut(f, M)

(***************************************************************************)
(* genericMarkerPool.  Put appends the marker whether or not it is already *)
(* in the pool; Get takes the marker put last, or allocates (mnew, or an   *)
(* empty pool).                                                            *)
(***************************************************************************)
ZeroMarker == [op |-> NilOp, resume |-> "nil", f |-> TGet, k |-> << >>]

acquireMarker(M) ==
  IF M.mfree # << >> /\ ~M.mnew
  THEN [id |-> Head(M.mfree), M |-> [M EXCEPT !.mfree = Tail(M.mfree)]]
  ELSE [id |-> Len(M.markers) + 1,
        M |-> [M EXCEPT !.markers = Append(M.markers, ZeroMarker)]]

releaseMarker(id, M) ==
  [M EXCEPT !.markers[id] = ZeroMarker, !.mfree = <<id>> \o M.mfree]

\* a marker with its fields filled in by Perform, GetState or PutState
newMarker(op, resume, f, k, M) ==
  LET a == acquireMarker(M) IN
  [r |-> MarkerV(a.id),
   M |-> [a.M EXCEPT !.markers[a.id] =
            [op |-> op, resume |-> resume, f |-> f, k |-> k]]]

(***************************************************************************)
(* Closure form.  applyCont(tm, k, M) is the Cont built from tm applied to *)
(* the continuation k; applyK(k, a, M) is the continuation k applied to a. *)
(* A continuation is the sequence of the closures Bind, Map and Then have  *)
(* wrapped around the final continuation toResumed (the empty sequence).   *)
(***************************************************************************)
BindK(body) == [t |-> "BindK", body |-> body, g |-> ""]
MapK(g) == [t |-> "MapK", body |-> TGet, g |-> g]
ThenK(n) == [t |-> "ThenK", body |-> n, g |-> ""]

\* One step of applying a Cont to a continuation (t = "app") or a
\* continuation to a value (t = "ret"); t = "done" carries the Resumed.
CApp(tm, k, M) == [t |-> "app", tm |-> tm, a |-> NilV, k |-> k, M |-> M]
CRet(a, k, M) == [t |-> "ret", tm |-> TGet, a |-> a, k |-> k, M |-> M]
CDone(rm) == [t |-> "done", tm |-> TGet, a |-> rm.r, k |-> << >>, M |-> rm.M]

RECURSIVE contRun(_)
RECURSIVE shiftBody(_, _, _)
RECURSIVE RunError(_, _)

\* the function Bracket binds acquire to
BracketK(release, use) ==
  [t |-> "BracketK", body |-> use, g |-> "", release |-> release]

\* Either[E, A] of a result of RunError
Left(e) == [side |-> "Left", v |-> e]
Right(a) == [side |-> "Right", v |-> a]
Either(res) == IF res.tag = "short" THEN Left(res.v) ELSE Right(res.v)

\* a Bracket that gives the resource back only when use succeeded
bracketReleaseOnSuccess(release, resource, r, k) ==
  IF r.res.tag = "panic" THEN CDone([r |-> PanicV(r.res.msg), M |-> r.M])
  ELSE IF r.res.tag = "short" THEN CRet(AnyV(Either(r.res)), k, r.M)
  ELSE CApp(Inst(release, resource), <<ThenK(TRetVal(Either(r.res)))>> \o k,
            noteCall("release", resource, r.M))

\* Bind(release(resource), func(_) { return Return(result) }); a panic of
\* use unwinds through Bracket
bracketRelease(release, resource, r, k) ==
  IF r.res.tag = "panic" THEN CDone([r |-> PanicV(r.res.msg), M |-> r.M])
  ELSE CApp(Inst(release, resource), <<ThenK(TRetVal(Either(r.res)))>> \o k,
            noteCall("release", resource, r.M))

\* result := RunError(use(resource))
bracketUse(h, resource, k, M) ==
  bracketRelease(h.release, resource,
                 RunError(Inst(h.body, resource),
                          noteCall("use", resource, M)), k)

\* a captured continuation that can be called once only
callKOnce(k, a, M) ==
  IF M.applied > 0 THEN [r |-> a, M |-> M] ELSE contRun(CRet(a, k, M))

\* k(a) inside the function given to Shift: k is the continuation Shift was
\* applied to, a plain function value that can be called again
callK(k, a, M) == contRun(CRet(a, k, M))

shiftSum(l, r) == [r |-> IntV(l.r.v + r.r.v), M |-> r.M]
shiftProduct(l, r) == [r |-> IntV(l.r.v * r.r.v), M |-> r.M]
shiftCall(k, a) == callK(k, a.r, a.M)
shiftRight(h, k, l) == [l |-> l, r |-> shiftBody(h, k, l.M)]
shiftPair(h, k, M) == shiftRight(h.r, k, shiftBody(h.l, k, M))
shiftArith(h, p) ==
  IF h.h = "add" THEN shiftSum(p.l, p.r) ELSE shiftProduct(p.l, p.r)

\* Shift(f) applied to k is f(k)
shiftBody(h, k, M) ==
  CASE h.h = "lit" -> [r |-> IntV(h.n), M |-> M]
    [] h.h = "k" -> shiftCall(k, shiftBody(h.a, k, M))
    [] OTHER -> shiftArith(h, shiftPair(h, k, M))

\* Run(m) is m applied to the identity continuation
Run(tm, M) == contRun(CApp(tm, << >>, M))

\* a Reset whose result is not passed on
resetSkipsRest(r, k) == CRet(r.r, << >>, r.M)

\* Reset(m) is Return(Run(m))
resetReturn(r, k) == CRet(r.r, k, r.M)

contStep(c) ==
  LET tm == c.tm
      k == c.k
      M == c.M
  IN
  IF c.t = "app"
  THEN CASE tm.t = "Ret" -> CRet(IntV(tm.e.c), k, M)
         [] tm.t = "Get" -> CDone(newMarker(GetOp, "effect", TGet, k, M))
         [] tm.t = "Put" ->
              CDone(newMarker(PutOp(tm.e.c), "effect", TGet, k, M))
         [] tm.t = "Throw" ->
              CDone(newMarker(ThrowOp(tm.e.c), "effect", TGet, k, M))
         [] tm.t = "Unhandled" ->
              CDone(newMarker(composeUnhandledOp, "effect", TGet, k, M))
         [] tm.t = "Catch" ->
              CDone(newMarker(CatchOp(tm.body, tm.handler), "effect", TGet,
                              k, M))
         [] tm.t = "RetVal" -> CRet(AnyV(tm.v), k, M)
         [] tm.t = "Nil" -> CDone([r |-> NilV, M |-> M])
         [] tm.t = "Bracket" ->
              CApp(tm.acquire, <<BracketK(tm.release, tm.use)>> \o k, M)
         [] tm.t = "Tell" ->
              CDone(newMarker(TellOp(tm.e.c), "effect", TGet, k, M))
         [] tm.t = "Listen" ->
              CDone(newMarker(ListenOp(tm.body), "effect", TGet, k, M))
         [] tm.t = "Censor" ->
              CDone(newMarker(CensorOp(tm.F, tm.body), "effect", TGet, k, M))
         [] tm.t = "Shift" -> CDone(shiftBody(tm.h, k, M))
         [] tm.t = "Reset" -> resetReturn(Run(tm.m, M), k)
         [] tm.t = "Bind" -> CApp(tm.m, <<BindK(tm.body)>> \o k, M)
         [] tm.t = "Map" -> CApp(tm.m, <<MapK(tm.g)>> \o k, M)
         [] tm.t = "Then" -> CApp(tm.m, <<ThenK(tm.n)>> \o k, M)
         [] tm.t = "GetState" ->
              CDone(newMarker(GetOp, "bind", tm.body, k, M))
         [] tm.t = "PutState" ->
              CDone(newMarker(PutOp(tm.e.c), "then", tm.n, k, M))
  ELSE IF k = << >> THEN CDone([r |-> c.a, M |-> M])
  ELSE LET h == Head(k) IN
       CASE h.t = "BindK" -> CApp(Inst(h.body, c.a.v), Tail(k), noteApplied(M))
         [] h.t = "MapK" ->
              CRet(IntV(ApplyG(h.g, c.a.v)), Tail(k), noteApplied(M))
         [] h.t = "ThenK" -> CApp(h.body, Tail(k), noteApplied(M))
         [] h.t = "BracketK" ->
              bracketUse(h, c.a.v, Tail(k), noteApplied(M))

contRun(c) == IF c.t = "done" THEN [r |-> c.a, M |-> c.M] ELSE contRun(contStep(c))

applyCont(tm, k, M) == contRun(CApp(tm, k, M))

applyK(k, a, M) == contRun(CRet(a, k, M))

\* genericMarker.Resume: the marker's resume function reads the fields it
\* needs, puts the marker back and continues.  A marker that was put back
\* has a nil resume function.  The marker Reflect makes (resume "reflect")
\* is no pool object: its Resume continues the frames it captured.
RECURSIVE reflectResume(_, _, _)

markerResume(id, v, M) ==
  LET m == M.markers[id]
      M1 == releaseMarker(id, [M EXCEPT !.invoked = @ + 1])
  IN
  IF m.resume = "nil"
  THEN [r |-> PanicV("nil pointer dereference"), M |-> M]
  ELSE IF m.resume = "reflect" THEN reflectResume(id, v, M)
  ELSE contRun(CASE m.resume = "effect" -> CRet(v, m.k, M1)
                 [] m.resume = "bind" ->
                      CApp(Inst(m.f, v.v), m.k, noteApplied(M1))
                 [] m.resume = "then" -> CApp(m.f, m.k, noteApplied(M1)))

(***************************************************************************)
(* The handler: State and Error composed.  Get answers the state, Put      *)
(* stores its value and answers struct{}{}, Throw short-circuits with the  *)
(* error; any other operation is unhandled.                                *)
(***************************************************************************)
\* a handler whose Throw is answered like any other operation
dispatchThrowResumes(op, hs) ==
  CASE op.o = "Get" -> [v |-> IntV(hs), resume |-> TRUE, hs |-> hs]
    [] op.o = "Put" -> [v |-> Unit, resume |-> TRUE, hs |-> op.v]
    [] op.o = "Throw" -> [v |-> IntV(op.v), resume |-> TRUE, hs |-> hs]
    [] OTHER -> [v |-> PanicV("kont: unhandled effect in StateErrorHandler"),
                 resume |-> FALSE, hs |-> hs]

\* a handler that answers struct{}{} to what it has no capability for
dispatchLenient(op, hs) ==
  CASE op.o = "Get" -> [v |-> IntV(hs), resume |-> TRUE, hs |-> hs]
    [] op.o = "Put" -> [v |-> Unit, resume |-> TRUE, hs |-> op.v]
    [] op.o = "Throw" -> [v |-> IntV(op.v), resume |-> FALSE, hs |-> hs]
    [] OTHER -> [v |-> Unit, resume |-> TRUE, hs |-> hs]

Dispatch(op, hs) ==
  CASE op.o = "Get" -> [v |-> IntV(hs), resume |-> TRUE, hs |-> hs]
    [] op.o = "Put" -> [v |-> Unit, resume |-> TRUE, hs |-> op.v]
    [] op.o = "Throw" -> [v |-> IntV(op.v), resume |-> FALSE, hs |-> hs]
    [] OTHER -> [v |-> PanicV("kont: unhandled effect in StateErrorHandler"),
                 resume |-> FALSE, hs |-> hs]

\* Dispatch, with the handler's state and the log of operations in M
dispatchIn(op, M) ==
  LET d == Dispatch(op, M.hs) IN
  [v |-> d.v, resume |-> d.resume,
   M |-> [M EXCEPT !.hs = d.hs, !.trace = Append(M.trace, op),
                   !.cut = IF d.resume \/ IsPanic(d.v) THEN @
                           ELSE [set |-> TRUE, v |-> d.v.v,
                                 n |-> Len(M.trace) + 1,
                                 applied |-> M.applied]]]

(***************************************************************************)
(* Results of an evaluation: a final value, a short-circuit value, a       *)
(* suspension (its address), or a panic.                                   *)
(***************************************************************************)
ValR(a) == [tag |-> "val", v |-> a.v, msg |-> ""]
ShortR(a) == [tag |-> "short", v |-> a.v, msg |-> ""]
SuspR(id) == [tag |-> "susp", v |-> id, msg |-> ""]
PanicR(msg) == [tag |-> "panic", v |-> 0, msg |-> msg]
NilR == [tag |-> "nilval", v |-> 0, msg |-> ""]

(***************************************************************************)
(* Frame form: the smart constructors.                                     *)
(***************************************************************************)
ExprPerform(op) == Expr(ZeroV, EffectFrame(op, identityResume, ReturnFrame))

RECURSIVE ExprBuild(_)

\* the function a BindFrame holds, applied
userF(body, a) == ExprBuild(Inst(body, a.v))

\* constructors that build their frame whatever the frame of m is
exprBindLazy(m, body) ==
  Expr(m.Value, ChainFrames(m.Frame, BindFrame(UserF(body), ReturnFrame)))
exprMapLazy(m, g) ==
  Expr(m.Value, ChainFrames(m.Frame, MapFrame(g, ReturnFrame)))

\* an ExprBind whose frame replaces the frames of m
exprBindForgetsFirst(m, body) ==
  IF m.Frame.t = "Return" THEN userF(body, m.Value)
  ELSE Expr(ZeroV, BindFrame(UserF(body), ReturnFrame))

ExprBind(m, body) ==
  IF m.Frame.t = "Return" THEN userF(body, m.Value)
  ELSE Expr(ZeroV, ChainFrames(m.Frame, BindFrame(UserF(body), ReturnFrame)))

ExprMap(m, g) ==
  IF m.Frame.t = "Return" THEN ExprReturn(IntV(ApplyG(g, m.Value.v)))
  ELSE Expr(ZeroV, ChainFrames(m.Frame, MapFrame(g, ReturnFrame)))

ExprThen(m, n) ==
  IF m.Frame.t = "Return" THEN n
  ELSE Expr(ZeroV, ChainFrames(m.Frame, ThenFrame(n, ReturnFrame)))

\* the Expr a program denotes, built with the public constructors
ExprBuild(tm) ==
  CASE tm.t = "Ret" -> ExprReturn(IntV(tm.e.c))
    [] tm.t = "Nil" -> ExprReturn(NilV)
    [] tm.t = "Get" -> ExprPerform(GetOp)
    [] tm.t = "Put" -> ExprPerform(PutOp(tm.e.c))
    [] tm.t = "Throw" -> ExprPerform(ThrowOp(tm.e.c))
    [] tm.t = "Unhandled" -> ExprPerform(composeUnhandledOp)
    [] tm.t = "Bind" -> ExprBind(ExprBuild(tm.m), tm.body)
    [] tm.t = "Map" -> ExprMap(ExprBuild(tm.m), tm.g)
    [] tm.t = "Then" -> ExprThen(ExprBuild(tm.m), ExprBuild(tm.n))
    [] tm.t = "GetState" -> ExprBind(ExprPerform(GetOp), tm.body)
    [] tm.t = "PutState" ->
         ExprThen(ExprPerform(PutOp(tm.e.c)), ExprBuild(tm.n))

(***************************************************************************)
(* Reify: fromResumed turns a Resumed value into an Expr; for a marker it  *)
(* is an EffectFrame whose Resume resumes the marker, followed by a        *)
(* BindFrame that converts the next step on demand.                        *)
(***************************************************************************)
\* a conversion that does not convert what the resumed marker answers
fromResumedOnce(r, M) ==
  IF ~IsMarker(r)
  THEN IF r.tag = "nil" THEN ExprReturn(ZeroV) ELSE ExprReturn(r)
  ELSE Expr(ZeroV,
            EffectFrame(M.markers[r.v].op, markerResumeClosure(r.v), ReturnFrame))

fromResumed(r, M) ==
  IF ~IsMarker(r)
  THEN IF r.tag = "nil" THEN ExprReturn(ZeroV) ELSE ExprReturn(r)
  ELSE Expr(ZeroV,
            EffectFrame(M.markers[r.v].op, markerResumeClosure(r.v),
                        BindFrame(FromResumedF, ReturnFrame)))

\* BindFrame.F applied to the current value
applyF(F, a, M) ==
  IF F.k = "nil" THEN ExprReturn(PanicV(NilDeref))
  ELSE IF F.k = "user" THEN userF(F.body, a) ELSE fromResumed(a, M)

\* EffectFrame.Resume applied to the handler's reply
applyResume(R, v, M) ==
  IF R.k = "nil" THEN [r |-> PanicV(NilDeref), M |-> M]
  ELSE IF R.k = "identity" THEN [r |-> v, M |-> [M EXCEPT !.invoked = @ + 1]]
  ELSE markerResume(R.m, v, M)

(***************************************************************************)
(* Suspension objects.  cont = 0 is the nil effectSuspension; on the Expr  *)
(* path ef and rest hold the effect frame and the frames after it.         *)
(***************************************************************************)
Suspension(op, cont, ef, rest) ==
  [used |-> 0, op |-> op, cont |-> cont, ef |-> ef, rest |-> rest]

(***************************************************************************)
(* The processors of evalFrames.                                           *)
(*   [kind |-> "handler"]          handlerProcessor                        *)
(*   [kind |-> "pure"]             handlerProcessor over pureEval          *)
(*   [kind |-> "step", reuse |-> s] stepProcessor; reuse = 0 is nil        *)
(* processEffect answers [current, frame, result, ok, M].                  *)
(***************************************************************************)
HandlerP == [kind |-> "handler", reuse |-> 0]
PureP == [kind |-> "pure", reuse |-> 0]
StepP(reuse) == [kind |-> "step", reuse |-> reuse]
ReflectP(k) == [kind |-> "reflect", reuse |-> 0, k |-> k]

\* a Resumed value as the result of evalFrames, and back
ResumedR(x) ==
  [tag |-> CASE x.tag = "marker" -> "rmarker"
             [] x.tag = "int" -> "rint"
             [] x.tag = "nil" -> "rnil"
             [] OTHER -> "panic",
   v |-> x.v, msg |-> x.msg]

FromR(res) ==
  CASE res.tag = "rmarker" -> MarkerV(res.v)
    [] res.tag = "rint" -> IntV(res.v)
    [] res.tag = "rnil" -> NilV
    [] res.tag = "panic" -> PanicV(res.msg)

PE(current, frame, result, ok, M) ==
  [current |-> current, frame |-> frame, result |-> result, ok |-> ok, M |-> M]

\* the loop goes on with what f.Resume answered (r) and the frames after f
resumedEffect(f, rest, r) ==
  PE(r.r, rest, ValR(ZeroV), TRUE, releaseEffectFrame(f, r.M))

\* a handlerProcessor that resumes whatever Dispatch answers
handlerAlwaysResume(f, rest, M) ==
  resumedEffect(f, rest, applyResume(f.Resume, dispatchIn(f.Operation, M).v,
                                     dispatchIn(f.Operation, M).M))

handlerProcessEffect(f, rest, M) ==
  LET d == dispatchIn(f.Operation, M) IN
  IF IsPanic(d.v) THEN PE(NilV, NilFrame, PanicR(d.v.msg), FALSE, d.M)
  ELSE IF ~d.resume
  THEN PE(NilV, NilFrame, ShortR(d.v), FALSE, releaseEffectFrame(f, d.M))
  ELSE resumedEffect(f, rest, applyResume(f.Resume, d.v, d.M))

pureProcessEffect(f, rest, M) ==
  PE(NilV, NilFrame,
     PanicR("kont: unhandled effect frame in pure computation - use HandleExpr"),
     FALSE, M)

\* a stepProcessor that goes on past the effect with the zero value
stepSkipEffect(reuse, f, rest, M) == PE(ZeroV, rest, ValR(ZeroV), TRUE, M)

stepProcessEffect(reuse, f, rest, M) ==
  IF reuse = 0
  THEN PE(NilV, NilFrame, SuspR(Len(M.susp) + 1), FALSE,
          [M EXCEPT !.susp =
             Append(M.susp, Suspension(f.Operation, 0, f, rest))])
  ELSE LET M1 == releaseEffectFrame(M.susp[reuse].ef, M) IN
       PE(NilV, NilFrame, SuspR(reuse), FALSE,
          [M1 EXCEPT !.susp[reuse] = Suspension(f.Operation, 0, f, rest)])

\* a marker that forgets the frames after f
reflectDropRest(p, f, rest, M) ==
  PE(NilV, NilFrame, ResumedR(MarkerV(Len(M.markers) + 1)), FALSE,
     [M EXCEPT !.markers = Append(M.markers,
        [op |-> f.Operation, resume |-> "reflect",
         f |-> [ef |-> f, rest |-> ReturnFrame], k |-> p.k])])

\* the effectMarker whose k continues the frames after f with p
reflectProcessEffect(p, f, rest, M) ==
  PE(NilV, NilFrame, ResumedR(MarkerV(Len(M.markers) + 1)), FALSE,
     [M EXCEPT !.markers = Append(M.markers,
        [op |-> f.Operation, resume |-> "reflect",
         f |-> [ef |-> f, rest |-> rest], k |-> p.k])])

\* p.k applied to the current value
asResult(r) == [res |-> ResumedR(r.r), M |-> r.M]

reflectReturn(p, current, M) == asResult(applyK(p.k, current, M))

processEffect(p, f, rest, M) ==
  CASE p.kind = "handler" -> handlerProcessEffect(f, rest, M)
    [] p.kind = "reflect" -> reflectProcessEffect(p, f, rest, M)
    [] p.kind = "pure" -> pureProcessEffect(f, rest, M)
    [] p.kind = "step" -> stepProcessEffect(p.reuse, f, rest, M)

\* the type assertion current.(R) on a nil interface value
NilConversion == "interface conversion: interface is nil"

\* a processReturn that takes nil for the zero value
processReturnNilChecked(p, current) ==
  IF current.tag = "nil" THEN ValR(ZeroV) ELSE ValR(current)

\* stepProcessor hands current on as it is; handlerProcessor asserts its
\* type
processReturn(p, current) ==
  IF current.tag # "nil" THEN ValR(current)
  ELSE IF p.kind = "step" THEN NilR
  ELSE PanicR(NilConversion)

(***************************************************************************)
(* evalFrames: one iteration of the flatten phase when the frame is a      *)
(* chain, one direct step otherwise, until a processor ends the loop.      *)
(***************************************************************************)
UnknownFrame == "kont: frame type does not implement Unwind"

\* the node o is pooled and has not been put back
held(o, M) ==
  CASE o.t = "ChainRef" -> M.nodes[o.id].pooled
    [] o.t \in {"Bind", "Then", "Effect"} -> o.pooled /\ o \notin M.zeroed
    [] OTHER -> FALSE

\* the kinds of the nodes of owners that are held in the memory M
heldKinds(owners, M) == {o.t : o \in {x \in owners : held(x, M)}}

\* chainFromPool of fields that were read from nodes of which those of the
\* kinds in unreleased have not been put back
chainFromFields(unreleased, first, second, M) ==
  chainFromPool(first, second,
                IF first.t = "Return" \/ second.t = "Return" THEN M
                ELSE [M EXCEPT !.early = @ \cup unreleased])

\* The loop's variables, and whether it has returned (fin) with res.
Go(current, frame, M) ==
  [current |-> current, frame |-> frame, M |-> M, fin |-> FALSE,
   res |-> NilR]
Fin(res, M) ==
  [current |-> NilV, frame |-> NilFrame, M |-> M, fin |-> TRUE, res |-> res]

finished(r) == Fin(r.res, r.M)

afterEffect(e) ==
  IF ~e.ok THEN Fin(e.result, e.M) ELSE Go(e.current, e.frame, e.M)

\* a rotation that puts the nested chain's rest before its first
flattenNestedSwap(current, frame, cf, p, M) ==
  LET rest == cf.rest
      M1 == releaseChain(frame, M)
      nested == chainNode(cf.first, M1)
      M2 == releaseChain(cf.first, M1)
      inner == chainFromPool(nested.first, rest, M2)
      outer == chainFromPool(nested.rest, inner.frame, inner.M)
  IN Go(current, outer.frame, outer.M)

\* a rotation that loses the rest of the nested chain
flattenNestedLosesRest(current, frame, cf, p, M) ==
  LET rest == cf.rest
      M1 == releaseChain(frame, M)
      nested == chainNode(cf.first, M1)
      M2 == releaseChain(cf.first, M1)
      outer == chainFromPool(nested.first, rest, M2)
  IN Go(current, outer.frame, outer.M)

\* the frame is a chain whose first element is a chain: rotate right
flattenNested(current, frame, cf, p, M) ==
  LET rest == cf.rest
      M1 == releaseChain(frame, M)
      nested == chainNode(cf.first, M1)
      first == nested.first
      nrest == nested.rest
      M2 == releaseChain(cf.first, M1)
      inner == chainFromFields(heldKinds({frame, cf.first}, M2), nrest, rest,
                               M2)
      outer == chainFromFields(heldKinds({frame, cf.first}, M2), first,
                               inner.frame, inner.M)
  IN Go(current, outer.frame, outer.M)

\* an effect branch that goes on with the rest of the chain alone
effectRestSkipsNext(unreleased, f, rest, M) == [frame |-> rest, M |-> M]

\* the frames after the effect frame f that is first of a chain: those of
\* f.Next, then the rest of the chain
effectRest(unreleased, f, rest, M) ==
  chainFromFields(unreleased, f.Next, rest, M)

\* the frame is a chain whose first element f is not a chain
flattenFirst(current, frame, cf, p, M) ==
  LET f == cf.first IN
  CASE f.t = "Return" -> Go(current, cf.rest, releaseChain(frame, M))
    [] f.t = "Bind" ->
         LET next == applyF(f.F, current, M)
             fNext == f.Next
             rest == cf.rest
             M1 == releaseBindFrame(f, releaseChain(frame, M))
             inner == chainFromFields(heldKinds({frame, f}, M1), next.Frame,
                                      fNext, M1)
             outer == chainFromFields(heldKinds({frame, f}, M1), inner.frame,
                                      rest, inner.M)
         IN Go(next.Value, outer.frame, outer.M)
    [] f.t = "Map" ->
         LET c == IntV(ApplyG(f.F, current.v))
             M1 == releaseChain(frame, M)
             r == chainFromFields(heldKinds({frame, f}, M1), f.Next, cf.rest,
                                  M1)
         IN Go(c, r.frame, r.M)
    [] f.t = "Then" ->
         LET secondFrame == f.Second.Frame
             fNext == f.Next
             rest == cf.rest
             M1 == releaseThenFrame(f, releaseChain(frame, M))
             inner == chainFromFields(heldKinds({frame, f}, M1), secondFrame,
                                      fNext, M1)
             outer == chainFromFields(heldKinds({frame, f}, M1), inner.frame,
                                      rest, inner.M)
         IN Go(f.Second.Value, outer.frame, outer.M)
    [] f.t = "Effect" ->
         LET rest == cf.rest
             M1 == releaseChain(frame, M)
             r == effectRest(heldKinds({frame, f}, M1), f, rest, M1)
         IN afterEffect(processEffect(p, f, r.frame, r.M))
    [] f.t = "Custom" ->
         LET rest == cf.rest
             M1 == releaseChain(frame, M)
             r == chainFromFields(heldKinds({frame, f}, M1), f.Next, rest, M1)
         IN Go(IntV(current.v + f.Val), r.frame, r.M)
    [] OTHER -> Fin(PanicR(UnknownFrame), M)

\* the frame f is not a chain
directStep(current, f, p, M) ==
  CASE f.t = "Return" ->
         IF p.kind = "reflect"
         THEN finished(reflectReturn(p, current, M))
         ELSE Fin(processReturn(p, current), M)
    [] f.t = "Bind" ->
         LET next == applyF(f.F, current, M)
             M1 == releaseBindFrame(f, M)
             r == chainFromFields(heldKinds({f}, M1), next.Frame, f.Next, M1)
         IN Go(next.Value, r.frame, r.M)
    [] f.t = "Map" -> Go(IntV(ApplyG(f.F, current.v)), f.Next, M)
    [] f.t = "Then" ->
         LET M1 == releaseThenFrame(f, M)
             r == chainFromFields(heldKinds({f}, M1), f.Second.Frame, f.Next,
                                  M1)
         IN Go(f.Second.Value, r.frame, r.M)
    [] f.t = "Effect" -> afterEffect(processEffect(p, f, f.Next, M))
    [] f.t = "Custom" -> Go(IntV(current.v + f.Val), f.Next, M)
    [] OTHER -> Fin(PanicR(UnknownFrame), M)

\* one iteration of the loop
evalStep(st, p) ==
  IF IsPanic(st.current) THEN Fin(PanicR(st.current.msg), st.M)
  ELSE IF IsChain(st.frame)
  THEN LET cf == chainNode(st.frame, st.M) IN
       IF IsChain(cf.first)
       THEN flattenNested(st.current, st.frame, cf, p, st.M)
       ELSE flattenFirst(st.current, st.frame,
                         [cf EXCEPT !.first = live(@, st.M)], p,
                         noteFrame(cf.first, st.M))
  ELSE directStep(st.current, live(st.frame, st.M), p,
                  noteFrame(st.frame, st.M))

RECURSIVE evalLoop(_, _)
evalLoop(st, p) ==
  IF st.fin THEN [res |-> st.res, M |-> st.M] ELSE evalLoop(evalStep(st, p), p)

\* a call of evalFrames begins and returns
enterEval(M) ==
  [M EXCEPT !.depth = @ + 1,
            !.deep = IF M.depth + 1 > @ THEN M.depth + 1 ELSE @]
leaveEval(r) == [res |-> r.res, M |-> [r.M EXCEPT !.depth = @ - 1]]

RECURSIVE evalFrames(_, _, _, _)

\* an evaluator that calls itself for the Next of a Map frame
evalFramesRecursive(current, frame, p, M) ==
  IF frame.t = "Map"
  THEN leaveEval(evalFrames(IntV(ApplyG(frame.F, current.v)), frame.Next, p,
                            enterEval(M)))
  ELSE leaveEval(evalLoop(Go(current, frame, enterEval(M)), p))

evalFrames(current, frame, p, M) ==
  leaveEval(evalLoop(Go(current, frame, enterEval(M)), p))

\* effectMarker.Resume of a marker made by Reflect
\* evalFrames of what a Resume answered (r) and the frames rest
evalResumed(r, rest, p) == evalFrames(r.r, rest, p, r.M)

\* the Resumed value an evaluation with a reflectProcessor ended with
reflected(e) == [r |-> FromR(e.res), M |-> e.M]

reflectResume(id, v, M) ==
  reflected(evalResumed(applyResume(M.markers[id].f.ef.Resume, v, M),
                        M.markers[id].f.rest, ReflectP(M.markers[id].k)))

\* a Reflect that hands the Expr's Value to k and never runs its frames
reflectValueOnly(m, k, M) == applyK(k, m.Value, M)

\* Reflect(m) applied to the continuation k
Reflect(m, k, M) == reflected(evalFrames(m.Value, m.Frame, ReflectP(k), M))

(***************************************************************************)
(* Runners of the closure form and of the frame form.                      *)
(***************************************************************************)
RECURSIVE handleDispatch(_, _)
RECURSIVE Handle(_, _)
RECURSIVE dispatchScoped(_, _)

\* the operations that run a computation of their own when dispatched
ScopedOps == {"Catch"}

\* h.Dispatch(op) of the handler M.h.  The State and Error handler of
\* Dispatch is the handler of the frame form and of the stepping loops
\* too; the other handlers, and the operations that run a computation,
\* are dispatched by Handle only.
handlerDispatch(op, M) ==
  IF M.h # "StateError" \/ op.o \in ScopedOps THEN dispatchScoped(op, M)
  ELSE dispatchIn(op, M)

\* handleDispatch of a Resumed value r.r in the memory r.M
handleResumed(r) == handleDispatch(r.r, r.M)

\* the handler has answered d to the operation of the marker at id
handleDispatched(id, d) ==
  IF IsPanic(d.v) THEN [res |-> PanicR(d.v.msg), M |-> d.M]
  ELSE IF ~d.resume THEN [res |-> ShortR(d.v), M |-> d.M]
  ELSE handleResumed(markerResume(id, d.v, d.M))

handleDispatch(result, M) ==
  IF IsPanic(result) THEN [res |-> PanicR(result.msg), M |-> M]
  ELSE IF IsMarker(result)
  THEN handleDispatched(result.v, handlerDispatch(M.markers[result.v].op, M))
  ELSE IF result.tag = "nil" THEN [res |-> ValR(ZeroV), M |-> M]
  ELSE [res |-> ValR(result), M |-> M]

Handle(tm, M) == handleResumed(applyCont(tm, << >>, M))

(***************************************************************************)
(* The Error handler, and Catch.  RunError runs a computation under an     *)
(* Error handler of its own: the result is Right (tag "val") or Left (tag  *)
(* "short").  Catch runs its body with RunError, and on Left the handler   *)
(* applied to the error; the Left of the handler is the error of the       *)
(* dispatching handler's context.                                          *)
(***************************************************************************)
unhandledEffect(handler) == PanicV("kont: unhandled effect in " \o handler)

HandlerName(h) == h \o "Handler"

\* the result r of a computation run inside a dispatch of the handler h
\* whose short-circuit mark was cut
inner(r, h, cut) == [res |-> r.res, M |-> [r.M EXCEPT !.h = h, !.cut = cut]]

RunError(tm, M) ==
  inner(Handle(tm, [M EXCEPT !.h = "Error"]), M.h, M.cut)

\* what a dispatch answers
Answer(v, resume, M) == [v |-> v, resume |-> resume, M |-> M]

\* the dispatching handler finds the error e in its context
Thrown(e, M) ==
  Answer(IntV(e), FALSE,
         [M EXCEPT !.cut = [set |-> TRUE, v |-> e, n |-> Len(M.trace),
                            applied |-> M.applied]])

\* the answer of a dispatch that ran the computation with result r
ranToEnd(r) ==
  IF r.res.tag = "panic" THEN Answer(PanicV(r.res.msg), FALSE, r.M)
  ELSE IF r.res.tag = "short" THEN Thrown(r.res.v, r.M)
  ELSE Answer(IntV(r.res.v), TRUE, r.M)

catchBodyRan(op, r) ==
  IF r.res.tag = "short"
  THEN ranToEnd(RunError(Inst(op.Handler, r.res.v),
                         noteCall("handler", r.res.v, r.M)))
  ELSE ranToEnd(r)

\* a Catch that never calls its handler
catchWithoutHandler(op, M) == ranToEnd(RunError(op.Body, M))

CatchDispatchError(op, M) == catchBodyRan(op, RunError(op.Body, M))

errorDispatch(op, M) ==
  CASE op.o = "Throw" -> Thrown(op.v, M)
    [] op.o = "Catch" -> CatchDispatchError(op, M)

\* the functions given to Censor
Secrets == {2, 3}
Redacted == 0
ApplyCensor(F, ws) ==
  CASE F = "redact" ->
         [i \in 1..Len(ws) |-> IF ws[i] \in Secrets THEN Redacted ELSE ws[i]]
    [] F = "drop" -> << >>
    [] F = "twice" -> ws \o ws
    [] F = "rest" -> IF ws = << >> THEN ws ELSE Tail(ws)

\* a Listen that reports the whole output, a Censor that rewrites it all
writtenAll(Output, startLen) == Output
censoredAll(F, Output, startLen) == ApplyCensor(F, Output)

\* (*ctx.Output)[startLen:]
written(Output, startLen) == SubSeq(Output, startLen + 1, Len(Output))
\* append((*ctx.Output)[:startLen], o.F((*ctx.Output)[startLen:])...)
censored(F, Output, startLen) ==
  SubSeq(Output, 1, startLen) \o ApplyCensor(F, written(Output, startLen))

listened(r, startLen) ==
  IF r.res.tag = "panic" THEN Answer(PanicV(r.res.msg), FALSE, r.M)
  ELSE Answer(AnyV(Pair(r.res.v, written(r.M.out, startLen))), TRUE, r.M)

censorRan(F, r, startLen) ==
  IF r.res.tag = "panic" THEN Answer(PanicV(r.res.msg), FALSE, r.M)
  ELSE Answer(AnyV(r.res.v), TRUE,
              [r.M EXCEPT !.out = censored(F, @, startLen)])

\* a body run by the handler that dispatched the Listen or Censor
bodyByDispatcher(tm, M) == Handle(tm, M)

\* Handle(o.Body, writerDispatchHandler(ctx)): the body runs under a Writer
\* handler of its own on the same context
writerBody(tm, M) == inner(Handle(tm, [M EXCEPT !.h = "Writer"]), M.h, M.cut)

\* DispatchWriter of Tell, Listen and Censor
writerDispatch(op, M) ==
  CASE op.o = "Tell" -> Answer(Unit, TRUE, [M EXCEPT !.out = Append(@, op.v)])
    [] op.o = "Listen" -> listened(writerBody(op.Body, M), Len(M.out))
    [] op.o = "Censor" -> censorRan(op.F, writerBody(op.Body, M), Len(M.out))

\* the environment given to the Reader handlers
TestEnv == 42
AskOp == [o |-> "Ask", v |-> 0]
\* an operation of the caller's own, with the Dispatch methods named in caps
UserOp(caps) == [o |-> "User", v |-> 7, caps |-> caps]

\* the Dispatch methods an operation has
Capabilities(op) ==
  CASE op.o \in {"Get", "Put"} -> {"State"}
    [] op.o = "Ask" -> {"Reader"}
    [] op.o \in {"Throw", "Catch"} -> {"Error"}
    [] op.o \in {"Tell", "Listen", "Censor"} -> {"Writer"}
    [] op.o = "User" -> op.caps
    [] OTHER -> {}

\* the interface assertions of the Dispatch of each handler, in its order
DispatchOrder(h) ==
  CASE h = "Error" -> <<"Error">>
    [] h = "Writer" -> <<"Writer">>
    [] h = "StateReader" -> <<"State", "Reader">>
    [] h = "StateError" -> <<"State", "Error">>
    [] h = "StateWriter" -> <<"State", "Writer">>
    [] h = "ReaderStateError" -> <<"Reader", "State", "Error">>

\* a Dispatch that prefers the capability it asserts last
RECURSIVE lastCapability(_, _)
lastCapability(order, op) ==
  IF order = << >> THEN "none"
  ELSE IF order[Len(order)] \in Capabilities(op) THEN order[Len(order)]
  ELSE lastCapability(SubSeq(order, 1, Len(order) - 1), op)

\* the first assertion of the Dispatch that the operation satisfies
RECURSIVE firstCapability(_, _)
firstCapability(order, op) ==
  IF order = << >> THEN "none"
  ELSE IF Head(order) \in Capabilities(op) THEN Head(order)
  ELSE firstCapability(Tail(order), op)

\* DispatchState of Get and Put
stateDispatch(op, M) ==
  CASE op.o = "Get" -> Answer(IntV(M.hs), TRUE, M)
    [] op.o = "Put" -> Answer(Unit, TRUE, [M EXCEPT !.hs = op.v])

\* the Dispatch methods of the caller's operation: each answers from the
\* context it is given
userDispatch(c, op, M) ==
  CASE c = "Reader" -> Answer(IntV(TestEnv), TRUE, M)
    [] c = "State" -> Answer(IntV(M.hs), TRUE, M)
    [] c = "Error" -> Thrown(op.v, M)
    [] c = "Writer" -> Answer(Unit, TRUE, [M EXCEPT !.out = Append(@, op.v)])

\* the method of the capability c of the operation, on the handler's context
capabilityDispatch(c, op, M) ==
  CASE c = "none" -> Answer(unhandledEffect(HandlerName(M.h)), FALSE, M)
    [] op.o = "User" -> userDispatch(c, op, M)
    [] c = "State" -> stateDispatch(op, M)
    [] c = "Reader" -> Answer(IntV(TestEnv), TRUE, M)
    [] c = "Error" -> errorDispatch(op, M)
    [] c = "Writer" -> writerDispatch(op, M)

dispatchWith(op, M) ==
  capabilityDispatch(firstCapability(DispatchOrder(M.h), op), op, M)

dispatchScoped(op, M) == dispatchWith(op, [M EXCEPT !.trace = Append(@, op)])

HandleExpr(m, M) == evalFrames(m.Value, m.Frame, HandlerP, M)

RunPure(m, M) == evalFrames(m.Value, m.Frame, PureP, M)

\* the Expr of a Resumed value r.r in the memory r.M
reified(r) == [e |-> fromResumed(r.r, r.M), M |-> r.M]

Reify(tm, M) == reified(applyCont(tm, << >>, M))

(***************************************************************************)
(* The stepping boundary.  A call answers                                  *)
(*   [kind, v, next, msg, M]: kind is "ok" (v the value, next the next     *)
(*   suspension or 0 for nil), "false" (TryResume refused) or "panic".     *)
(***************************************************************************)
Out(kind, v, next, msg, M) ==
  [kind |-> kind, v |-> v, next |-> next, msg |-> msg, M |-> M]

classifyResumed(result, M) ==
  IF IsPanic(result) THEN Out("panic", 0, 0, result.msg, M)
  ELSE IF IsMarker(result)
  THEN Out("ok", 0, Len(M.susp) + 1, "",
           [M EXCEPT !.susp = Append(M.susp,
              Suspension(M.markers[result.v].op, result.v, NilFrame, NilFrame))])
  ELSE IF result.tag = "nil" THEN Out("ok", 0, 0, "", M)
  ELSE Out("ok", result.v, 0, "", M)

classifyStepResult(r) ==
  CASE r.res.tag = "susp" -> Out("ok", 0, r.res.v, "", r.M)
    [] r.res.tag = "panic" -> Out("panic", 0, 0, r.res.msg, r.M)
    [] r.res.tag = "nilval" -> Out("panic", 0, 0, NilConversion, r.M)
    [] OTHER -> Out("ok", r.res.v, 0, "", r.M)

\* classifyResumed of a Resumed value r.r in the memory r.M
classified(r) == classifyResumed(r.r, r.M)

Step(tm, M) == classified(applyCont(tm, << >>, M))

StepExpr(m, M) == classifyStepResult(evalFrames(m.Value, m.Frame, StepP(0), M))

\* what Resume and TryResume do once the guard has let them through; reuse
\* is the Suspension handed to the stepProcessor (the receiver itself)
resumeBody(s, v, M, reuse) ==
  LET sp == M.susp[s] IN
  IF sp.cont # 0
  THEN classified(markerResume(sp.cont, v, M))
  ELSE IF sp.ef.t # "Effect"
  THEN Out("panic", 0, 0, "nil pointer dereference", M)
  ELSE classifyStepResult(
         evalResumed(applyResume(sp.ef.Resume, v, M), sp.rest, StepP(reuse)))

\* used.Add(1)
usedAdd(s, M) == [M EXCEPT !.susp[s].used = @ + 1]

DoubleResume == "kont: suspension resumed twice"

SuspensionResume(s, v, M) ==
  LET M1 == usedAdd(s, M) IN
  IF M1.susp[s].used # 1 THEN Out("panic", 0, 0, DoubleResume, M1)
  ELSE resumeBody(s, v, M1, s)

SuspensionTryResume(s, v, M) ==
  LET M1 == usedAdd(s, M) IN
  IF M1.susp[s].used # 1 THEN Out("false", 0, 0, "", M1)
  ELSE resumeBody(s, v, M1, s)

\* a Discard that leaves the counter alone
discardNoStore(s, M) == Out("ok", 0, 0, "", M)

SuspensionDiscard(s, M) ==
  LET M1 == [M EXCEPT !.susp[s].used = 1] IN
  IF M1.susp[s].cont # 0
  THEN Out("ok", 0, 0, "", releaseMarker(M1.susp[s].cont, M1))
  ELSE Out("ok", 0, 0, "", M1)

SuspensionOp(s, M) == M.susp[s].op

(***************************************************************************)
(* State.                                                                  *)
(*   aff  : one Affine made by Once(k): its use counter, how many times k  *)
(*          was invoked, and whether it was discarded while fresh          *)
(*   thr  : the goroutines sharing the Affine (or, below, a Suspension):   *)
(*          the call each makes, where it is in it, and its outcome        *)
(*   mem  : the memory of the stepping client's computation                *)
(*   ref  : the same computation run with a stepProcessor that never       *)
(*          reuses a Suspension                                            *)
(*   cl   : the stepping client: the calls it made and what it observed    *)
(*   run  : one program run to completion by each runner                   *)
(***************************************************************************)
VARIABLES aff, thr, mem, ref, cl, run

vars == <<aff, thr, mem, ref, cl, run>>

Threads == 1..NumThreads

Resumers == {"Resume", "TryResume"}

\* what a refused attempt returns: Resume panics, TryResume returns false
Refused(op) == IF op = "Resume" THEN "panic" ELSE "false"

NoThreads == [t \in Threads |-> [op |-> "none", pc |-> "done", out |-> "none"]]
NoAffine == [used |-> 0, calls |-> 0, disc |-> FALSE]
NoClient == [phase |-> "off"]
NoRun == [phase |-> "off"]

(***************************************************************************)
(* Affine.  Resume and TryResume first add 1 to the counter, atomically,   *)
(* and go on to invoke the continuation only when the sum is 1; Discard    *)
(* stores 1.                                                               *)
(***************************************************************************)
affineWinsSlack(sum) == sum <= 2

affineWins(sum) == sum = 1

AffineOps == {"Resume", "TryResume", "Discard"}

\* a.used.Add(1) and the test of its result
AffineAdd(t) ==
  /\ thr[t].pc = "start"
  /\ thr[t].op \in {"Resume", "TryResume"}
  /\ aff' = [aff EXCEPT !.used = @ + 1]
  /\ thr' = [thr EXCEPT ![t] =
       IF affineWins(aff.used + 1) THEN [@ EXCEPT !.pc = "call"]
       ELSE [@ EXCEPT !.pc = "done",
                      !.out = IF thr[t].op = "Resume" THEN "panic" ELSE "false"]]
  /\ UNCHANGED <<mem, ref, cl, run>>

\* a.resume(v)
AffineCall(t) ==
  /\ thr[t].pc = "call"
  /\ aff' = [aff EXCEPT !.calls = @ + 1]
  /\ thr' = [thr EXCEPT ![t] = [@ EXCEPT !.pc = "done", !.out = "ok"]]
  /\ UNCHANGED <<mem, ref, cl, run>>

\* a.used.Store(1)
AffineDiscard(t) ==
  /\ thr[t].pc = "start"
  /\ thr[t].op = "Discard"
  /\ aff' = [aff EXCEPT !.used = 1, !.disc = @ \/ aff.used = 0]
  /\ thr' = [thr EXCEPT ![t] = [@ EXCEPT !.pc = "done", !.out = "discarded"]]
  /\ UNCHANGED <<mem, ref, cl, run>>

InitAffine ==
  /\ aff = NoAffine
  /\ thr \in [Threads -> {[op |-> o, pc |-> "start", out |-> "none"] :
                            o \in AffineOps}]
  /\ mem = EmptyMem
  /\ ref = EmptyMem
  /\ cl = NoClient
  /\ run = NoRun

NextAffine ==
  \E t \in Threads : AffineAdd(t) \/ AffineCall(t) \/ AffineDiscard(t)

SpecAffine == InitAffine /\ [][NextAffine]_vars

(***************************************************************************)
(* The stepping client.  It starts a program with Step or StepExpr and     *)
(* then calls Resume, TryResume and Discard, in any order and with any     *)
(* value, on the handles it holds: handle j is the j-th suspension it was  *)
(* given.  After every call it looks at Op() of each handle.               *)
(*                                                                         *)
(* ref is driven by the same calls, with a Resume that hands no            *)
(* Suspension to the stepProcessor, so that every step allocates.          *)
(***************************************************************************)
StepPrograms ==
  { TGet,
    TGetState(TPutState(VarPlus(10), TGet)),
    TBind(TGet, TThen(TPut(VarPlus(10)), TGet)),
    TBind(TGet, TMap(TPut(VarPlus(10)), "inc")) }

\* Resume and TryResume of a Suspension whose steps always allocate
FreshResume(s, v, M) ==
  LET M1 == usedAdd(s, M) IN
  IF M1.susp[s].used # 1 THEN Out("panic", 0, 0, DoubleResume, M1)
  ELSE resumeBody(s, v, M1, 0)

FreshTryResume(s, v, M) ==
  LET M1 == usedAdd(s, M) IN
  IF M1.susp[s].used # 1 THEN Out("false", 0, 0, "", M1)
  ELSE resumeBody(s, v, M1, 0)

Call(call, s, v, M) ==
  CASE call = "Resume" -> SuspensionResume(s, v, M)
    [] call = "TryResume" -> SuspensionTryResume(s, v, M)
    [] call = "Discard" -> SuspensionDiscard(s, M)

FreshCall(call, s, v, M) ==
  CASE call = "Resume" -> FreshResume(s, v, M)
    [] call = "TryResume" -> FreshTryResume(s, v, M)
    [] call = "Discard" -> SuspensionDiscard(s, M)

\* what the client sees of a call: its outcome, and Op() of every handle
Observe(call, j, out, hs) ==
  [call |-> call, j |-> j, kind |-> out.kind, v |-> out.v, msg |-> out.msg,
   next |-> out.next # 0,
   ops |-> [i \in 1..Len(hs) |-> SuspensionOp(hs[i], out.M)]]

\* genericMarkerPool.Get may allocate although the pool holds a marker
PoolChoices(M) == IF M.mfree # << >> THEN BOOLEAN ELSE {FALSE}

Handles(hs, out) == IF out.next # 0 THEN Append(hs, out.next) ELSE hs

ClientStart ==
  /\ cl.phase = "start"
  /\ \E nw \in {FALSE} :
     \E out \in {IF cl.path = "cont"
                 THEN Step(cl.prog, [mem EXCEPT !.mnew = nw])
                 ELSE StepExpr(ExprBuild(cl.prog), [mem EXCEPT !.mnew = nw])} :
       LET hs == Handles(<< >>, out)
       IN /\ mem' = out.M
          /\ ref' = out.M
          /\ cl' = [cl EXCEPT !.phase = "run", !.h = hs, !.rh = hs,
                              !.last = Observe("Step", 0, out, hs),
                              !.rlast = Observe("Step", 0, out, hs)]
  /\ UNCHANGED <<aff, thr, run>>

ClientCall(call, j, v) ==
  /\ cl.phase = "run"
  /\ cl.n < MaxCalls
  /\ j \in 1..Len(cl.h)
  /\ \E nw \in PoolChoices(mem) :
     \E out \in {Call(call, cl.h[j], IntV(v), [mem EXCEPT !.mnew = nw])} :
     \E rout \in {IF j <= Len(cl.rh)
                  THEN FreshCall(call, cl.rh[j], IntV(v),
                                 [ref EXCEPT !.mnew = nw])
                  ELSE Out("none", 0, 0, "", [ref EXCEPT !.mnew = nw])} :
       LET s == cl.h[j]
           hs == Handles(cl.h, out)
           rhs == Handles(cl.rh, rout)
       IN /\ mem' = out.M
          /\ ref' = rout.M
          /\ cl' = [cl EXCEPT
               !.n = @ + 1, !.h = hs, !.rh = rhs,
               !.last = Observe(call, j, out, hs),
               !.rlast = Observe(call, j, rout, rhs),
               \* a call on this handle had succeeded before; a Resume or
               \* TryResume on it had; the object was discarded while fresh
               !.prior = j \in cl.hdone,
               !.priorResumed = j \in cl.hres,
               !.priorFresh = s \in cl.disc,
               !.ran = out.M.invoked - mem.invoked,
               !.poolSame = /\ out.M.markers = mem.markers
                            /\ out.M.mfree = mem.mfree
                            /\ out.M.nodes = mem.nodes
                            /\ out.M.cfree = mem.cfree,
               !.hdone = IF call = "Discard" \/ out.kind = "ok"
                         THEN @ \cup {j} ELSE @,
               !.hres = IF call # "Discard" /\ out.kind = "ok"
                        THEN @ \cup {j} ELSE @,
               !.disc = IF call = "Discard" /\ mem.susp[s].used = 0
                        THEN @ \cup {s} ELSE @]
  /\ UNCHANGED <<aff, thr, run>>

NoObs == [call |-> "none", j |-> 0, kind |-> "none", v |-> 0, msg |-> "",
          next |-> FALSE, ops |-> << >>]

InitStep ==
  /\ aff = NoAffine
  /\ thr = NoThreads
  /\ mem = EmptyMem
  /\ ref = EmptyMem
  /\ run = NoRun
  /\ \E P \in StepPrograms, path \in {"cont", "expr"} :
       cl = [phase |-> "start", prog |-> P, path |-> path, n |-> 0,
             h |-> << >>, rh |-> << >>, last |-> NoObs, rlast |-> NoObs,
             prior |-> FALSE, priorResumed |-> FALSE, priorFresh |-> FALSE,
             ran |-> 0, poolSame |-> TRUE, hdone |-> {}, hres |-> {},
             disc |-> {}]

NextStep ==
  \/ ClientStart
  \/ \E j \in 1..MaxCalls :
       \/ ClientCall("Resume", j, 1)
       \/ ClientCall("TryResume", j, 1)
       \/ ClientCall("Discard", j, 1)

SpecStep == InitStep /\ [][NextStep]_vars

(***************************************************************************)
(* Goroutines sharing one Suspension, the first of a program started with  *)
(* Step or StepExpr; each calls Resume or TryResume on it once.  A call is *)
(* three steps: used.Add(1) and its test; the evaluation, which on the     *)
(* Expr path runs up to the stepProcessor's used.Store(0), s.cont = nil    *)
(* and releaseEffectFrame(s.ef); and the stepProcessor's writes of s.op,   *)
(* s.ef and s.rest.  The evaluation reads s.cont, s.ef and s.rest as they  *)
(* are when it starts.                                                     *)
(***************************************************************************)
Shared == 1

NoPend == Suspension(NilOp, 0, NilFrame, NilFrame)

ConcAdd(t) ==
  /\ cl.phase = "conc"
  /\ thr[t].pc = "start"
  /\ mem' = usedAdd(Shared, mem)
  /\ thr' = [thr EXCEPT ![t] =
       IF mem'.susp[Shared].used = 1 THEN [@ EXCEPT !.pc = "eval"]
       ELSE [@ EXCEPT !.pc = "done", !.out = Refused(thr[t].op)]]
  /\ UNCHANGED <<aff, ref, cl, run>>

ConcEval(t) ==
  /\ cl.phase = "conc"
  /\ thr[t].pc = "eval"
  /\ LET out == resumeBody(Shared, IntV(1), mem, Shared) IN
     IF out.kind = "ok" /\ out.next = Shared
     THEN /\ mem' = [out.M EXCEPT !.susp[Shared] =
                       [mem.susp[Shared] EXCEPT !.used = 0, !.cont = 0]]
          /\ thr' = [thr EXCEPT ![t] =
               [@ EXCEPT !.pc = "write", !.pend = out.M.susp[Shared]]]
     ELSE /\ mem' = out.M
          /\ thr' = [thr EXCEPT ![t] = [@ EXCEPT !.pc = "done", !.out = out.kind]]
  /\ UNCHANGED <<aff, ref, cl, run>>

ConcWrite(t) ==
  /\ cl.phase = "conc"
  /\ thr[t].pc = "write"
  /\ mem' = [mem EXCEPT !.susp[Shared].op = thr[t].pend.op,
                        !.susp[Shared].ef = thr[t].pend.ef,
                        !.susp[Shared].rest = thr[t].pend.rest]
  /\ thr' = [thr EXCEPT ![t] = [@ EXCEPT !.pc = "done", !.out = "ok"]]
  /\ UNCHANGED <<aff, ref, cl, run>>

InitConc ==
  /\ aff = NoAffine
  /\ ref = EmptyMem
  /\ run = NoRun
  /\ thr \in [Threads -> {[op |-> o, pc |-> "start", out |-> "none",
                           pend |-> NoPend] : o \in Resumers}]
  /\ \E P \in StepPrograms, path \in {"cont", "expr"} :
       /\ cl = [phase |-> "conc", prog |-> P, path |-> path]
       /\ mem = IF path = "cont" THEN Step(P, EmptyMem).M
                ELSE StepExpr(ExprBuild(P), EmptyMem).M

NextConc == \E t \in Threads : ConcAdd(t) \/ ConcEval(t) \/ ConcWrite(t)

SpecConc == InitConc /\ [][NextConc]_vars

(***************************************************************************)
(* One-shot use, of an Affine by several goroutines or of Suspensions by   *)
(* the stepping client.                                                    *)
(***************************************************************************)
InitOneShot == InitAffine \/ InitStep

NextOneShot == NextAffine \/ NextStep

SpecOneShot == InitOneShot /\ [][NextOneShot]_vars

(***************************************************************************)
(* Running one program to completion, from one initial handler state, in   *)
(* every way the library offers:                                           *)
(*   h  : Handle(m, handler)                                               *)
(*   x  : HandleExpr of the Expr built with ExprBind, ExprThen, ...        *)
(*   r  : HandleExpr(Reify(m), handler)                                    *)
(*   rr : Handle(Reflect(Reify(m)), handler)                               *)
(*   xr : HandleExpr(Reify(Reflect(e)), handler), e the Expr of x          *)
(*   s  : a loop around Step and Resume                                    *)
(*   sx : a loop around StepExpr and Resume                                *)
(* The loops keep the handler's state themselves and answer each           *)
(* suspension with the handler's reply to its Op(); when the handler       *)
(* short-circuits they discard the suspension and stop with its value.     *)
(***************************************************************************)
\* the state the stepping tests start from
TestState == 5

LetProgram == TBind(TGet, TThen(TPut(VarPlus(10)), TGet))

\* an aborting operation under two Binds
AbortProgram ==
  TBind(TBind(TThrow(Const(77)), TRet(VarPlus(1))), TPut(VarPlus(0)))

\* the state is read and advanced, then an error is thrown before a Put
ThrowProgram ==
  TThen(TGetState(TPutState(VarPlus(1), TThrow(Const(9)))), TPut(Const(0)))

RunPrograms ==
  { LetProgram,
    ThrowProgram,
    TGetState(TPutState(VarPlus(10), TGet)),
    TRet(Const(4)),
    TBind(TRet(Const(1)), TRet(VarPlus(1))),
    \* right-nested
    TThen(TGet, TThen(TPut(Const(3)), TGet)),
    TBind(TGet, TBind(TPut(VarPlus(1)), TBind(TGet, TRet(VarPlus(2))))),
    \* left-nested
    TThen(TThen(TGet, TPut(Const(7))), TGet),
    TBind(TBind(TBind(TGet, TRet(VarPlus(1))), TPut(VarPlus(1))), TGet),
    TThen(TThen(TThen(TPut(Const(2)), TGet), TPut(Const(6))), TGet),
    \* mapped
    TMap(TBind(TMap(TGet, "dbl"), TThen(TPut(VarPlus(1)), TGet)), "inc"),
    \* frames spliced in by the function of a Bind and by a Then
    TBind(TThen(TPut(Const(1)), TGet),
          TThen(TThen(TPut(VarPlus(1)), TGet), TMap(TGet, "dbl"))),
    \* short-circuit
    TThen(TPut(Const(2)), TThen(TThrow(Const(9)), TGet)),
    TBind(TBind(TGet, TThrow(VarPlus(1))), TPut(VarPlus(0))),
    TThrow(Const(9)),
    AbortProgram }

InitStates == 0..MaxInit \cup {TestState}

StartMem(hs0) == [EmptyMem EXCEPT !.hs = hs0]

NoRes == [done |-> FALSE, kind |-> "none", v |-> 0, msg |-> "",
          trace |-> << >>, hs |-> 0]

Res(r) == [done |-> TRUE, kind |-> r.res.tag, v |-> r.res.v, msg |-> r.res.msg,
           trace |-> r.M.trace, hs |-> r.M.hs]

NoDrv(hs0) ==
  [pc |-> "start", M |-> EmptyMem, cur |-> 0, ops |-> << >>, asked |-> << >>,
   hs |-> hs0, kind |-> "none", v |-> 0, resumes |-> 0]

RunHandle ==
  /\ run.phase = "run"
  /\ ~run.h.done
  /\ \E r \in {Handle(run.prog, StartMem(run.hs0))} :
       run' = [run EXCEPT !.h = Res(r), !.hm = r.M]
  /\ UNCHANGED <<aff, thr, mem, ref, cl>>

RunHandleExpr ==
  /\ run.phase = "run"
  /\ ~run.x.done
  /\ \E r \in {HandleExpr(ExprBuild(run.prog), StartMem(run.hs0))} :
       run' = [run EXCEPT !.x = Res(r), !.xm = r.M]
  /\ UNCHANGED <<aff, thr, mem, ref, cl>>

RunReify ==
  /\ run.phase = "run"
  /\ ~run.r.done
  /\ \E e \in {Reify(run.prog, StartMem(run.hs0))} :
       run' = [run EXCEPT !.r = Res(HandleExpr(e.e, e.M))]
  /\ UNCHANGED <<aff, thr, mem, ref, cl>>

RunReflectReify ==
  /\ run.phase = "run"
  /\ ~run.rr.done
  /\ \E e \in {Reify(run.prog, StartMem(run.hs0))} :
     \E r \in {Reflect(e.e, << >>, e.M)} :
       run' = [run EXCEPT !.rr = Res(handleDispatch(r.r, r.M))]
  /\ UNCHANGED <<aff, thr, mem, ref, cl>>

RunReifyReflect ==
  /\ run.phase = "run"
  /\ ~run.xr.done
  /\ \E r \in {Reflect(ExprBuild(run.prog), << >>, StartMem(run.hs0))} :
       run' = [run EXCEPT !.xr = Res(HandleExpr(fromResumed(r.r, r.M), r.M))]
  /\ UNCHANGED <<aff, thr, mem, ref, cl>>

\* the loop's state after a Step, StepExpr or Resume answered out
Driven(d, out) ==
  IF out.kind = "ok" /\ out.next # 0
  THEN [d EXCEPT !.pc = "susp", !.M = out.M, !.cur = out.next,
                 !.ops = Append(@, SuspensionOp(out.next, out.M))]
  ELSE [d EXCEPT !.pc = "done", !.M = out.M, !.cur = 0,
                 !.kind = IF out.kind = "ok" THEN "val" ELSE out.kind,
                 !.v = out.v]

DriveStart(path) ==
  /\ run.phase = "run"
  /\ run[path].pc = "start"
  /\ \E out \in {IF path = "s" THEN Step(run.prog, EmptyMem)
                  ELSE StepExpr(ExprBuild(run.prog), EmptyMem)} :
       run' = [run EXCEPT ![path] = Driven(@, out)]
  /\ UNCHANGED <<aff, thr, mem, ref, cl>>

DriveResume(path) ==
  /\ run.phase = "run"
  /\ run[path].pc = "susp"
  /\ LET d == run[path]
         op == SuspensionOp(d.cur, d.M)
         a == Dispatch(op, d.hs)
         d1 == [d EXCEPT !.asked = Append(@, op), !.hs = a.hs]
     IN
     IF ~a.resume
     THEN run' = [run EXCEPT ![path] =
                    [d1 EXCEPT !.pc = "done", !.M = SuspensionDiscard(d.cur, d.M).M,
                               !.kind = "short", !.v = a.v.v]]
     ELSE \E out \in {SuspensionResume(d.cur, a.v, d.M)} :
          run' = [run EXCEPT ![path] =
                    Driven([d1 EXCEPT !.resumes =
                              IF out.kind = "ok" THEN @ + 1 ELSE @], out)]
  /\ UNCHANGED <<aff, thr, mem, ref, cl>>

InitRun ==
  /\ aff = NoAffine
  /\ thr = NoThreads
  /\ mem = EmptyMem
  /\ ref = EmptyMem
  /\ cl = NoClient
  /\ \E P \in RunPrograms, hs0 \in InitStates :
       run = [phase |-> "run", prog |-> P, hs0 |-> hs0,
              h |-> NoRes, x |-> NoRes, r |-> NoRes, rr |-> NoRes, xr |-> NoRes,
              hm |-> EmptyMem, xm |-> EmptyMem,
              s |-> NoDrv(hs0), sx |-> NoDrv(hs0)]

NextRun ==
  \/ RunHandle
  \/ RunHandleExpr
  \/ RunReify
  \/ RunReflectReify
  \/ RunReifyReflect
  \/ \E path \in {"s", "sx"} : DriveStart(path) \/ DriveResume(path)

SpecRun == InitRun /\ [][NextRun]_vars

(***************************************************************************)
(* Evaluating one Expr again and again, with RunPure, HandleExpr or a loop *)
(* around StepExpr and Resume, in any order.  The pools, the Suspension    *)
(* objects and whatever a release has zeroed stay as the evaluation before *)
(* left them; the handler starts each evaluation from the same state.  The *)
(* Expr is built with the public constructors, or (public = FALSE) of      *)
(* frames taken with AcquireEffectFrame, AcquireBindFrame and              *)
(* AcquireThenFrame, which are for a single evaluation.                    *)
(***************************************************************************)
MaxEvals == 3

ReuseKinds == {"Handle", "RunPure", "HandleExpr", "StepExpr"}

\* an operation the handler has no capability for, between two Puts
UnhandledProgram ==
  TBind(TThen(TPut(Const(3)), TUnhandled), TPut(VarPlus(8)))

ReusePrograms ==
  { LetProgram,
    TRet(Const(4)),
    TThen(TThen(TGet, TPut(Const(7))), TGet),
    TBind(TThen(TPut(Const(1)), TGet),
          TThen(TThen(TPut(VarPlus(1)), TGet), TMap(TGet, "dbl"))),
    TMap(TBind(TMap(TGet, "dbl"), TThen(TPut(VarPlus(1)), TGet)), "inc"),
    AbortProgram,
    TUnhandled,
    UnhandledProgram }

\* Get, then Put of the answer plus one, then Get, in pooled frames
AcquiredExpr ==
  Expr(ZeroV,
       AcquireEffectFrame(GetOp, identityResume,
         AcquireBindFrame(UserF(TPut(VarPlus(1))),
           AcquireThenFrame(ExprPerform(GetOp), ReturnFrame))))

\* a frame of a type the evaluator does not know, alone and first in a chain
UnwindPanicNonChained == Expr(IntV(42), NoUnwindFrame)

UnwindPanicChained ==
  Expr(IntV(42), ChainFrames(NoUnwindFrame, MapFrame("id", ReturnFrame)))

\* prog is the program e was built from, as a Cont, when there is one
ReuseExprs ==
  {[e |-> ExprBuild(P), public |-> TRUE, prog |-> P, cont |-> TRUE] :
      P \in ReusePrograms}
    \cup {[e |-> x.e, public |-> x.public, prog |-> TGet, cont |-> FALSE] :
            x \in {[e |-> UnwindPanicNonChained, public |-> TRUE],
                   [e |-> UnwindPanicChained, public |-> TRUE],
                   [e |-> AcquiredExpr, public |-> FALSE]}}

\* the memory the next evaluation starts in
Restart(M, hs0) ==
  [M EXCEPT !.hs = hs0, !.trace = << >>, !.cut = NoCut, !.applied = 0,
            !.invoked = 0]

\* what a finished loop around StepExpr and Resume has seen
DrvRes(d) == [done |-> TRUE, kind |-> d.kind, v |-> d.v, msg |-> "",
              trace |-> d.asked, hs |-> d.hs]

Evaluated(kind, res) ==
  [run EXCEPT !.n = @ + 1, !.last = res, !.kind = kind,
              !.first = IF @[kind].done THEN @ ELSE [@ EXCEPT ![kind] = res],
              !.d = NoDrv(run.hs0)]

ReuseEval(kind) ==
  /\ run.phase = "reuse"
  /\ run.n < MaxEvals
  /\ run.d.pc = "start"
  /\ kind = "Handle" => run.cont
  /\ \E r \in {CASE kind = "RunPure" ->
                     RunPure(run.e, Restart(mem, run.hs0))
                  [] kind = "HandleExpr" ->
                     HandleExpr(run.e, Restart(mem, run.hs0))
                  [] kind = "Handle" ->
                     Handle(run.prog, Restart(mem, run.hs0))} :
       /\ mem' = r.M
       /\ run' = Evaluated(kind, Res(r))
  /\ UNCHANGED <<aff, thr, ref, cl>>

ReuseStepped(d) ==
  IF d.pc = "done" THEN Evaluated("StepExpr", DrvRes(d))
  ELSE [run EXCEPT !.d = d]

ReuseStepStart ==
  /\ run.phase = "reuse"
  /\ run.n < MaxEvals
  /\ run.d.pc = "start"
  /\ \E out \in {StepExpr(run.e, Restart(mem, run.hs0))} :
       /\ mem' = out.M
       /\ run' = ReuseStepped(Driven(run.d, out))
  /\ UNCHANGED <<aff, thr, ref, cl>>

ReuseStepResume ==
  /\ run.phase = "reuse"
  /\ run.d.pc = "susp"
  /\ LET d == run.d
         op == SuspensionOp(d.cur, mem)
         a == Dispatch(op, d.hs)
         d1 == [d EXCEPT !.asked = Append(@, op), !.hs = a.hs]
     IN
     IF IsPanic(a.v)
     THEN \* the handler's panic unwinds the loop
          /\ mem' = mem
          /\ run' = Evaluated("StepExpr",
                              [DrvRes(d1) EXCEPT !.kind = "panic",
                                                 !.msg = a.v.msg])
     ELSE
     \E out \in {IF a.resume THEN SuspensionResume(d.cur, a.v, mem)
                  ELSE SuspensionDiscard(d.cur, mem)} :
       /\ mem' = out.M
       /\ run' = IF a.resume
                 THEN ReuseStepped(Driven(d1, out))
                 ELSE ReuseStepped([d1 EXCEPT !.pc = "done", !.M = out.M,
                                              !.kind = "short", !.v = a.v.v])
  /\ UNCHANGED <<aff, thr, ref, cl>>

InitReuse ==
  /\ aff = NoAffine
  /\ thr = NoThreads
  /\ mem = EmptyMem
  /\ ref = EmptyMem
  /\ cl = NoClient
  /\ \E x \in ReuseExprs, hs0 \in {0, TestState} :
       run = [phase |-> "reuse", e |-> x.e, public |-> x.public,
              prog |-> x.prog, cont |-> x.cont, hs0 |-> hs0,
              n |-> 0, kind |-> "none", last |-> NoRes,
              first |-> [k \in ReuseKinds |-> NoRes], d |-> NoDrv(hs0)]

NextReuse ==
  \/ ReuseEval("Handle")
  \/ ReuseEval("RunPure")
  \/ ReuseEval("HandleExpr")
  \/ ReuseStepStart
  \/ ReuseStepResume

SpecReuse == InitReuse /\ [][NextReuse]_vars

(***************************************************************************)
(* The effect families beside State: one program is run once by the runner *)
(* of its family, from an empty memory.                                    *)
(***************************************************************************)
CatchBodies ==
  { TRet(Const(42)),
    TThrow(Const(7)),
    TBind(TRet(Const(1)), TThrow(VarPlus(2))),
    TThen(TRet(Const(5)), TRet(Const(6))) }

\* functions of the error
CatchHandlers ==
  { TRet(Const(99)), TRet(VarPlus(1)), TThrow(VarPlus(100)), TThrow(Const(8)) }

CatchOnce == {TCatch(b, h) : b \in CatchBodies, h \in CatchHandlers}

\* a Catch alone, as the body of an outer Catch, and before a continuation
CatchPrograms ==
  CatchOnce
    \cup {TCatch(c, h) : c \in CatchOnce, h \in CatchHandlers}
    \cup {TBind(c, TRet(VarPlus(1000))) : c \in CatchOnce}

\* frames to chain: each kind, with and without a Next, and a chain
ChainOperands ==
  { ReturnFrame,
    MapFrame("inc", ReturnFrame),
    MapFrame("dbl", MapFrame("inc", ReturnFrame)),
    BindFrame(UserF(TRet(VarPlus(3))), ReturnFrame),
    BindFrame(UserF(TThen(TPut(VarPlus(2)), TGet)), ReturnFrame),
    ThenFrame(ExprPerform(GetOp), ReturnFrame),
    EffectFrame(GetOp, identityResume, ReturnFrame),
    EffectFrame(ThrowOp(9), identityResume, ReturnFrame),
    chainedFrame(MapFrame("dbl", ReturnFrame),
                 EffectFrame(PutOp(4), identityResume, ReturnFrame)) }

\* three frames, a starting value and a state of the handler
ChainCases ==
  {[a |-> a, b |-> b, c |-> c, v |-> v, hs |-> hs] :
     a \in ChainOperands, b \in ChainOperands, c \in ChainOperands,
     v \in {1}, hs \in {0, TestState}}

\* the functions given to Shift: k unused, used once, twice, three times,
\* nested, and with the result of k used further
ShiftBodies ==
  {Lit(999), Lit(42), KCall(Lit(7)), Add(KCall(Lit(1)), KCall(Lit(10))),
   Add(Add(KCall(Lit(1)), KCall(Lit(2))), KCall(Lit(3))),
   KCall(KCall(Lit(3))), Mul(KCall(Lit(5)), Lit(2))}

\* the rest of the computation after a Shift or a Reset
ShiftRests ==
  {TMap(TRet(VarPlus(0)), "dbl"), TRet(VarPlus(1)), TRet(VarPlus(100)),
   TBind(TRet(VarPlus(1)), TMap(TRet(VarPlus(0)), "dbl"))}

ShiftOnce == {TBind(TShift(h), f) : h \in ShiftBodies, f \in ShiftRests}

ShiftPrograms ==
  ShiftOnce \cup {TBind(TReset(m), g) : m \in ShiftOnce, g \in ShiftRests}

\* computations that write: no output, one, two with a secret, and
\* output on both sides of a value passed on
WriterBase ==
  {TRet(Const(5)), TThen(TTell(Const(1)), TRet(Const(42))),
   TThen(TTell(Const(2)), TThen(TTell(Const(4)), TRet(Const(7)))),
   TBind(TThen(TTell(Const(3)), TRet(Const(8))),
         TThen(TTell(VarPlus(1)), TRet(VarPlus(10))))}

CensorFs == {"redact", "drop", "twice", "rest"}

WriterNested ==
  WriterBase
    \cup {TListen(b) : b \in WriterBase}
    \cup {TCensor(F, b) : F \in CensorFs, b \in WriterBase}
    \cup {TThen(TTell(Const(4)), TListen(b)) : b \in WriterBase}
    \cup {TBind(TCensor("rest", b), TThen(TTell(Const(2)), TRetArg)) :
             b \in WriterBase}

\* output before, the operation on a body, output after
Around(m) ==
  TThen(TTell(Const(1)), TBind(m, TThen(TTell(Const(3)), TRetArg)))

ListenPrograms == {Around(TListen(b)) : b \in WriterNested}
CensorPrograms ==
  {Around(TCensor(F, b)) : F \in CensorFs, b \in WriterNested}

\* acquire gives a resource, after a recovered error too, or fails
BracketAcquires ==
  {TRet(Const(42)), TBind(TRet(Const(1)), TRet(VarPlus(2))),
   TCatch(TThrow(Const(1)), TRet(VarPlus(5))),
   TThrow(Const(7)), TBind(TRet(Const(3)), TThrow(VarPlus(4)))}
\* use completes, throws, or recovers from its own error
BracketUses ==
  {TMap(TRet(VarPlus(0)), "dbl"), TThrow(VarPlus(1)),
   TBind(TRet(VarPlus(1)), TThrow(VarPlus(1))),
   TCatch(TThrow(VarPlus(0)), TRet(VarPlus(1)))}
\* release completes or fails itself
BracketReleases == {TRet(Const(0)), TThrow(Const(9))}

BracketPrograms ==
  {TBracket(a, r, u) :
     a \in BracketAcquires, r \in BracketReleases, u \in BracketUses}

\* RunWriter: Handle with a handler of a new, empty output
RunWriter(tm, M) == Handle(tm, [M EXCEPT !.h = "Writer", !.out = << >>])

\* the entry points that run or step a computation
NilEntries ==
  {"Handle", "RunError", "RunWriter", "Step", "Reify", "HandleExpr", "StepExpr"}

\* a computation that ends with nil at once, and one that ends with nil
\* after an effect the entry point's handler resumes
NilAfterEffect(entry) ==
  CASE entry = "RunError" ->
         TBind(TCatch(TThrow(Const(1)), TRet(VarPlus(1))), TNil)
    [] entry = "RunWriter" -> TThen(TTell(Const(1)), TNil)
    [] OTHER -> TThen(TPut(Const(1)), TNil)

NilPrograms ==
  {[entry |-> e, tm |-> TNil] : e \in NilEntries}
    \cup {[entry |-> e, tm |-> NilAfterEffect(e)] : e \in NilEntries}

\* what a stepping call answered, as a result
stepResult(out) ==
  [res |-> CASE out.kind = "panic" -> PanicR(out.msg)
             [] out.next # 0 -> SuspR(out.next)
             [] OTHER -> ValR(IntV(out.v)),
   M |-> out.M]

\* the caller's loop over a suspension: the operation is answered as the
\* State handler answers it, and the suspension resumed
stepDriven(out) ==
  IF out.kind = "ok" /\ out.next # 0
  THEN SuspensionResume(out.next,
                        Dispatch(SuspensionOp(out.next, out.M), out.M.hs).v,
                        out.M)
  ELSE out

reifiedRun(r) == HandleExpr(r.e, r.M)

NilEntry(entry, tm, M) ==
  CASE entry = "Handle" -> Handle(tm, M)
    [] entry = "RunError" -> RunError(tm, M)
    [] entry = "RunWriter" -> RunWriter(tm, M)
    [] entry = "Step" -> stepResult(stepDriven(Step(tm, M)))
    [] entry = "Reify" -> reifiedRun(Reify(tm, M))
    [] entry = "HandleExpr" -> HandleExpr(ExprBuild(tm), M)
    [] entry = "StepExpr" -> stepResult(stepDriven(StepExpr(ExprBuild(tm), M)))

\* the first argument of a constructor: completed, or with frames
BuildFirsts ==
  {ExprReturn(IntV(21)), ExprReturn(IntV(42)), ExprPerform(GetOp),
   ExprMap(ExprPerform(GetOp), "inc"),
   ExprThen(ExprPerform(PutOp(4)), ExprReturn(IntV(9)))}
BuildBodies ==
  {TRet(VarPlus(3)), TRet(Const(1)), TThen(TPut(VarPlus(2)), TGet)}
BuildSeconds == {ExprReturn(IntV(7)), ExprPerform(GetOp)}

BuildCases ==
  {[m |-> m, body |-> b, g |-> g, n |-> n] :
     m \in BuildFirsts, b \in BuildBodies, g \in {"inc", "dbl"},
     n \in BuildSeconds}

\* m, and the bodies of f and g: pure, reading, writing, both, throwing
AssocFirsts ==
  {TRet(Const(1)), TGet, TThen(TPut(Const(3)), TGet), TThrow(Const(9))}
AssocBodies ==
  {TRet(VarPlus(3)), TGet, TThen(TPut(VarPlus(2)), TGet),
   TMap(TPut(VarPlus(1)), "inc"), TThrow(VarPlus(1))}
AssocCases ==
  {[m |-> m, f |-> f, g |-> g, hs |-> hs] :
     m \in AssocFirsts, f \in AssocBodies, g \in AssocBodies,
     hs \in {0, TestState}}

\* Bind(Bind(m, f), g) and Bind(m, x -> Bind(f(x), g))
AssocLeft(p) == TBind(TBind(p.m, p.f), p.g)
AssocRight(p) == TBind(p.m, TBind(p.f, p.g))

\* pure frame chains of n frames, each adding one: nested through Next,
\* chained to the left as repeated ExprMap and ExprBind chain them, chained
\* to the right, and Then frames whose k-th Second is the Return of k
RECURSIVE NextChain(_)
NextChain(n) ==
  IF n = 0 THEN ReturnFrame ELSE MapFrame("inc", NextChain(n - 1))
RECURSIVE LeftChain(_)
LeftChain(n) ==
  IF n = 0 THEN ReturnFrame
  ELSE ChainFrames(LeftChain(n - 1), MapFrame("inc", ReturnFrame))
RECURSIVE RightChain(_)
RightChain(n) ==
  IF n = 0 THEN ReturnFrame
  ELSE ChainFrames(MapFrame("inc", ReturnFrame), RightChain(n - 1))
RECURSIVE BindChain(_)
BindChain(n) ==
  IF n = 0 THEN ReturnFrame
  ELSE ChainFrames(BindChain(n - 1),
                   BindFrame(UserF(TRet(VarPlus(1))), ReturnFrame))
RECURSIVE ThenChain(_)
ThenChain(n) ==
  IF n = 0 THEN ReturnFrame
  ELSE ChainFrames(ThenChain(n - 1),
                   ThenFrame(ExprReturn(IntV(n)), ReturnFrame))

DeepShapes == {"next", "left", "right", "bind", "then"}
DeepChain(shape, n) ==
  CASE shape = "next" -> NextChain(n)
    [] shape = "left" -> LeftChain(n)
    [] shape = "right" -> RightChain(n)
    [] shape = "bind" -> BindChain(n)
    [] shape = "then" -> ThenChain(n)
DeepCases == {[shape |-> sh, n |-> n] : sh \in DeepShapes, n \in 0..MaxChain}

\* one operation given to the Dispatch of a composed handler
ComposedHandlers ==
  {"StateReader", "StateError", "StateWriter", "ReaderStateError"}
DispatchedOps ==
  {GetOp, PutOp(3), AskOp, ThrowOp(9), TellOp(2), composeUnhandledOp}
    \cup {UserOp(caps) : caps \in SUBSET {"Reader", "State", "Error", "Writer"}}
DispatchCases ==
  {[h |-> h, op |-> op, hs |-> hs] :
     h \in ComposedHandlers, op \in DispatchedOps, hs \in {0, TestState}}

\* a Listen, Censor or Catch between two Puts, under a composed handler;
\* foreign: the body performs an operation of another effect family
ForeignBodies == {TGet, TPut(Const(8)), TThen(TRet(Const(1)), TPut(Const(8)))}
ScopedTerm(scope, body) ==
  CASE scope = "Listen" -> TListen(body)
    [] scope = "Censor" -> TCensor("twice", body)
    [] scope = "Catch" -> TCatch(body, TRet(VarPlus(1)))
ScopedCases ==
  {[h |-> "StateWriter", scope |-> sc, body |-> b, foreign |-> f, hs |-> hs] :
     sc \in {"Listen", "Censor"}, hs \in {0, TestState},
     b \in ForeignBodies \cup {TThen(TTell(Const(2)), TGet)},
     f \in {TRUE}}
    \cup
  {[h |-> "StateWriter", scope |-> sc, body |-> b, foreign |-> f, hs |-> hs] :
     sc \in {"Listen", "Censor"}, hs \in {0, TestState},
     b \in {TTell(Const(2)), TRet(Const(4))}, f \in {FALSE}}
    \cup
  {[h |-> h, scope |-> sc, body |-> b, foreign |-> f, hs |-> hs] :
     h \in {"StateError", "ReaderStateError"}, sc \in {"Catch"},
     hs \in {0, TestState}, b \in ForeignBodies, f \in {TRUE}}
    \cup
  {[h |-> h, scope |-> sc, body |-> b, foreign |-> f, hs |-> hs] :
     h \in {"StateError", "ReaderStateError"}, sc \in {"Catch"},
     hs \in {0, TestState}, b \in {TThrow(Const(7)), TRet(Const(4))},
     f \in {FALSE}}
ScopedProgram(p) ==
  TThen(TThen(TPut(Const(3)), ScopedTerm(p.scope, p.body)), TPut(Const(9)))

\* frames taken from the frame pools, each with frames after it
PooledFirsts ==
  {AcquireEffectFrame(GetOp, identityResume, MapFrame("inc", ReturnFrame)),
   AcquireEffectFrame(ThrowOp(9), identityResume, MapFrame("inc", ReturnFrame)),
   AcquireBindFrame(UserF(TThen(TPut(VarPlus(1)), TGet)),
                    MapFrame("inc", ReturnFrame)),
   AcquireThenFrame(ExprPerform(GetOp), MapFrame("inc", ReturnFrame)),
   AcquireEffectFrame(GetOp, identityResume,
     AcquireBindFrame(UserF(TPut(VarPlus(1))),
       AcquireThenFrame(ExprPerform(GetOp), ReturnFrame)))}
\* the frame alone, first of a chain, and first of a chain nested in a chain
PooledFrames ==
  PooledFirsts
    \cup {ChainFrames(f, MapFrame("dbl", ReturnFrame)) : f \in PooledFirsts}
    \cup {ChainFrames(ChainFrames(f, MapFrame("dbl", ReturnFrame)),
                      MapFrame("inc", ReturnFrame)) : f \in PooledFirsts}
PooledCases ==
  {[frame |-> f, entry |-> e, hs |-> hs] :
     f \in PooledFrames, e \in {"HandleExpr", "StepExpr"},
     hs \in {0, TestState}}

\* computations given to Reify
ReifiedPrograms ==
  {TRet(Const(4)), TGet, TThen(TPut(Const(3)), TGet),
   TBind(TGet, TThen(TPut(VarPlus(10)), TGet)),
   TMap(TBind(TGet, TPut(VarPlus(1))), "inc")}
ReifiedCases ==
  {[tm |-> tm, hs |-> hs] : tm \in ReifiedPrograms, hs \in {0, TestState}}

\* a reified computation with a function bound or mapped after it
ReifiedFirsts ==
  {TGet, TGetState(TPutState(VarPlus(10), TGet)),
   TBind(TGet, TThen(TPut(VarPlus(10)), TGet)),
   TThen(TPut(Const(3)), TGet)}
ComposedBodies ==
  {TRet(VarPlus(100)), TThen(TPut(VarPlus(1)), TGet), TThrow(VarPlus(1))}
ComposedCases ==
  {[tm |-> tm, body |-> b, g |-> g, hs |-> hs] :
     tm \in ReifiedFirsts, b \in ComposedBodies, g \in {"inc", "dbl"},
     hs \in {0, TestState}}

\* frames of the user's own: the library's UnwindFrame with a reducer that
\* adds the data to the current value, and a frame type with an Unwind
\* method; each alone and first of a chain
UnwindFirsts ==
  {UnwindFrame(1, 2, 3, "sum"), UnwindFrame(0, 0, 4, "sum"),
   CustomFrame(5, ReturnFrame)}
UnwindCases ==
  {[frame |-> f, v |-> v, entry |-> e] :
     f \in UnwindFirsts
            \cup {ChainFrames(u, MapFrame("dbl", ReturnFrame)) :
                     u \in UnwindFirsts},
     v \in {0, 1, 10}, e \in {"RunPure", "HandleExpr"}}

FxCases ==
  {[runner |-> "RunError", prog |-> p] : p \in CatchPrograms}
    \cup {[runner |-> "Deep", prog |-> p] : p \in DeepCases}
    \cup {[runner |-> "Assoc", prog |-> p] : p \in AssocCases}
    \cup {[runner |-> "Build", prog |-> p] : p \in BuildCases}
    \cup {[runner |-> "Nil", prog |-> p] : p \in NilPrograms}
    \cup {[runner |-> "RunError", prog |-> p] : p \in BracketPrograms}
    \cup {[runner |-> "RunWriter", prog |-> p] :
             p \in ListenPrograms \cup CensorPrograms}
    \cup {[runner |-> "Run", prog |-> p] : p \in ShiftPrograms}
    \cup {[runner |-> "HandleExpr", prog |-> p] : p \in ChainCases}

\* the value Run returns, as a result
ranPure(r) == [res |-> ValR(r.r), M |-> r.M]

FxRun(runner) ==
  /\ run.phase = "fx"
  /\ ~run.done
  /\ run.runner = runner
  /\ \E r \in {CASE runner = "RunError" -> RunError(run.prog, mem)
                  [] runner = "Run" -> ranPure(Run(run.prog, mem))
                  [] runner = "RunWriter" -> RunWriter(run.prog, mem)} :
       /\ mem' = r.M
       /\ run' = [run EXCEPT !.done = TRUE, !.res = r.res]
  /\ UNCHANGED <<aff, thr, ref, cl>>

\* an entry point run on a computation that finishes with nil
FxNil ==
  /\ run.phase = "fx"
  /\ ~run.done
  /\ run.runner = "Nil"
  /\ \E r \in {NilEntry(run.prog.entry, run.prog.tm, mem)} :
       /\ mem' = r.M
       /\ run' = [run EXCEPT !.done = TRUE, !.res = r.res]
  /\ UNCHANGED <<aff, thr, ref, cl>>

\* an Expr, and how its evaluation by HandleExpr ended
Built(e, r) == [e |-> e, res |-> r.res, applied |-> r.M.applied, hs |-> r.M.hs]
BuiltAndRun(e, M) == Built(e, HandleExpr(e, M))

\* ExprBind, ExprMap and ExprThen of the case, each evaluated by HandleExpr
FxBuild ==
  /\ run.phase = "fx"
  /\ ~run.done
  /\ run.runner = "Build"
  /\ LET p == run.prog
         M0 == [EmptyMem EXCEPT !.hs = TestState]
     IN
     \E b \in {BuiltAndRun(ExprBind(p.m, p.body), M0)},
        mp \in {BuiltAndRun(ExprMap(p.m, p.g), M0)},
        th \in {BuiltAndRun(ExprThen(p.m, p.n), M0)} :
       /\ mem' = [M0 EXCEPT !.applied = b.applied, !.hs = b.hs]
       /\ run' = [run EXCEPT !.done = TRUE, !.res = b.res,
                             !.built = <<b, mp, th>>]
  /\ UNCHANGED <<aff, thr, ref, cl>>

\* both nestings of two Binds, run by Handle and, built with ExprBind, by
\* HandleExpr
FxAssoc ==
  /\ run.phase = "fx"
  /\ ~run.done
  /\ run.runner = "Assoc"
  /\ LET p == run.prog
         M0 == [EmptyMem EXCEPT !.hs = p.hs]
     IN
     \E cl_ \in {Handle(AssocLeft(p), M0)},
        cr \in {Handle(AssocRight(p), M0)},
        el \in {HandleExpr(ExprBuild(AssocLeft(p)), M0)},
        er \in {HandleExpr(ExprBuild(AssocRight(p)), M0)} :
       /\ mem' = cl_.M
       /\ run' = [run EXCEPT !.done = TRUE, !.res = cl_.res,
                             !.built = <<Res(cl_), Res(cr), Res(el), Res(er)>>]
  /\ UNCHANGED <<aff, thr, ref, cl>>

\* RunPure of a pure chain from the value 0
FxDeep ==
  /\ run.phase = "fx"
  /\ ~run.done
  /\ run.runner = "Deep"
  /\ \E r \in {RunPure(Expr(IntV(0), DeepChain(run.prog.shape, run.prog.n)),
                       mem)} :
       /\ mem' = r.M
       /\ run' = [run EXCEPT !.done = TRUE, !.res = r.res]
  /\ UNCHANGED <<aff, thr, ref, cl>>

\* an Expr of pooled frames evaluated once, by HandleExpr or by StepExpr
\* and Resume with the answers of the handler
EvalPooled ==
  /\ run.phase = "eval"
  /\ ~run.done
  /\ run.runner = "Pooled"
  /\ LET M0 == [EmptyMem EXCEPT !.hs = run.prog.hs]
         e == Expr(IntV(1), run.prog.frame)
     IN
     \E r \in {IF run.prog.entry = "HandleExpr" THEN HandleExpr(e, M0)
                ELSE stepResult(stepDriven(StepExpr(e, M0)))} :
       /\ mem' = r.M
       /\ run' = [run EXCEPT !.done = TRUE, !.res = r.res]
  /\ UNCHANGED <<aff, thr, ref, cl>>

\* two evaluations, one after the other
bothRuns(r1, r2) == [first |-> Res(r1), second |-> Res(r2), M |-> r2.M]

\* HandleExpr of e again, from the handler state hs, in the memory the
\* evaluation r1 left
evaluatedTwice(e, r1, hs) == bothRuns(r1, HandleExpr(e, Restart(r1.M, hs)))

\* e := Reify(m), then HandleExpr(e, h) twice with a handler that starts
\* from the same state
EvalReified ==
  /\ run.phase = "eval"
  /\ ~run.done
  /\ run.runner = "Reified"
  /\ \E x \in {Reify(run.prog.tm, EmptyMem)} :
     \E b \in {evaluatedTwice(x.e,
                               HandleExpr(x.e, Restart(x.M, run.prog.hs)),
                               run.prog.hs)} :
       /\ mem' = b.M
       /\ run' = [run EXCEPT !.done = TRUE, !.built = <<b.first, b.second>>]
  /\ UNCHANGED <<aff, thr, ref, cl>>

\* ExprBind(Reify(m), f) and ExprMap(Reify(m), g) evaluated by HandleExpr,
\* and Bind(m, f) and Map(m, g) run by Handle
EvalComposed ==
  /\ run.phase = "eval"
  /\ ~run.done
  /\ run.runner = "Composed"
  /\ LET p == run.prog
         M0 == [EmptyMem EXCEPT !.hs = p.hs]
     IN
     \E x \in {Reify(p.tm, M0)}, y \in {Reify(p.tm, M0)} :
     \E eb \in {HandleExpr(ExprBind(x.e, p.body), x.M)},
        em \in {HandleExpr(ExprMap(y.e, p.g), y.M)},
        cb \in {Handle(TBind(p.tm, p.body), M0)},
        cm \in {Handle(TMap(p.tm, p.g), M0)} :
       /\ mem' = eb.M
       /\ run' = [run EXCEPT !.done = TRUE, !.res = eb.res,
                             !.built = <<Res(eb), Res(cb), Res(em), Res(cm)>>]
  /\ UNCHANGED <<aff, thr, ref, cl>>

\* RunPure or HandleExpr of an Expr whose frame is of the user's own
EvalUnwind ==
  /\ run.phase = "eval"
  /\ ~run.done
  /\ run.runner = "Unwind"
  /\ \E r \in {IF run.prog.entry = "RunPure"
                THEN RunPure(Expr(IntV(run.prog.v), run.prog.frame), mem)
                ELSE HandleExpr(Expr(IntV(run.prog.v), run.prog.frame), mem)} :
       /\ mem' = r.M
       /\ run' = [run EXCEPT !.done = TRUE, !.res = r.res]
  /\ UNCHANGED <<aff, thr, ref, cl>>

\* RunStateWriter, RunStateError or RunReaderStateError of the program
EvalScoped ==
  /\ run.phase = "eval"
  /\ ~run.done
  /\ run.runner = "Scoped"
  /\ \E r \in {Handle(ScopedProgram(run.prog),
                        [EmptyMem EXCEPT !.h = run.prog.h,
                                         !.hs = run.prog.hs])} :
       /\ mem' = r.M
       /\ run' = [run EXCEPT !.done = TRUE, !.res = r.res]
  /\ UNCHANGED <<aff, thr, ref, cl>>

\* h.Dispatch(op) of a composed handler
EvalDispatch ==
  /\ run.phase = "eval"
  /\ ~run.done
  /\ run.runner = "Dispatch"
  /\ \E d \in {dispatchWith(run.prog.op,
                             [EmptyMem EXCEPT !.h = run.prog.h,
                                              !.hs = run.prog.hs])} :
       /\ mem' = d.M
       /\ run' = [run EXCEPT !.done = TRUE,
                             !.built = <<d.v, d.resume>>]
  /\ UNCHANGED <<aff, thr, ref, cl>>

\* the three frames chained to the left and chained to the right, each
\* evaluated by HandleExpr from the same value and handler state
FxChain ==
  /\ run.phase = "fx"
  /\ ~run.done
  /\ run.runner = "HandleExpr"
  /\ LET p == run.prog
         M0 == [EmptyMem EXCEPT !.hs = p.hs]
     IN
     \E l \in {HandleExpr(Expr(IntV(p.v),
                               ChainFrames(ChainFrames(p.a, p.b), p.c)), M0)},
        r \in {HandleExpr(Expr(IntV(p.v),
                               ChainFrames(p.a, ChainFrames(p.b, p.c))), M0)} :
       /\ mem' = l.M
       /\ run' = [run EXCEPT !.done = TRUE, !.res = Res(l), !.res2 = Res(r),
                             !.ab = ChainFrames(p.a, p.b),
                             !.pab = chainFromPool(p.a, p.b, l.M)]
  /\ UNCHANGED <<aff, thr, ref, cl>>

InitFx ==
  /\ aff = NoAffine
  /\ thr = NoThreads
  /\ mem = EmptyMem
  /\ ref = EmptyMem
  /\ cl = NoClient
  /\ \E c \in FxCases :
       run = [phase |-> "fx", runner |-> c.runner, prog |-> c.prog,
              done |-> FALSE, res |-> NilR, res2 |-> NilR,
              ab |-> NilFrame, pab |-> [frame |-> NilFrame, M |-> EmptyMem],
              built |-> << >>]

NextFx ==
  \/ FxRun("RunError")
  \/ FxRun("Run")
  \/ FxRun("RunWriter")
  \/ FxNil
  \/ FxBuild
  \/ FxAssoc
  \/ FxDeep
  \/ FxChain

SpecFx == InitFx /\ [][NextFx]_vars

(***************************************************************************)
(* Evaluations of Exprs made of pooled frames, of reified computations and *)
(* of frames of the user's own, and single dispatches of the composed      *)
(* handlers: one case is run once, from an empty memory.                   *)
(***************************************************************************)
EvalCases ==
  {[runner |-> "Scoped", prog |-> p] : p \in ScopedCases} \cup
  {[runner |-> "Pooled", prog |-> p] : p \in PooledCases}
    \cup {[runner |-> "Reified", prog |-> p] : p \in ReifiedCases}
    \cup {[runner |-> "Composed", prog |-> p] : p \in ComposedCases}
    \cup {[runner |-> "Unwind", prog |-> p] : p \in UnwindCases}
    \cup {[runner |-> "Dispatch", prog |-> p] : p \in DispatchCases}

InitEval ==
  /\ aff = NoAffine
  /\ thr = NoThreads
  /\ mem = EmptyMem
  /\ ref = EmptyMem
  /\ cl = NoClient
  /\ \E c \in EvalCases :
       run = [phase |-> "eval", runner |-> c.runner, prog |-> c.prog,
              done |-> FALSE, res |-> NilR, built |-> << >>]

NextEval ==
  \/ EvalDispatch
  \/ EvalScoped
  \/ EvalUnwind
  \/ EvalComposed
  \/ EvalReified
  \/ EvalPooled

SpecEval == InitEval /\ [][NextEval]_vars

(***************************************************************************)
(* Properties of one-shot use.                                             *)
(***************************************************************************)
\* C1: a Resume or TryResume on a handle on which a Resume or TryResume has
\* already succeeded is refused (Resume panics with "kont: suspension resumed
\* twice", TryResume returns false) and runs no step of the computation.
C1_SecondResumeRefused ==
  (cl.phase = "run" /\ cl.last.call \in Resumers /\ cl.priorResumed) =>
     /\ cl.last.kind = Refused(cl.last.call)
     /\ cl.last.call = "Resume" => cl.last.msg = DoubleResume
     /\ cl.ran = 0

\* C2: after every call the client sees the same outcome, and the same Op()
\* of every handle it holds, as the client whose steps allocate a fresh
\* Suspension.
C2_ReuseLikeFresh == cl.phase = "run" => cl.last = cl.rlast

\* C4: a Discard on a handle on which a Resume, TryResume or Discard has
\* already succeeded leaves the marker pool, the markers and the frame
\* pools as they were.
C4_LateDiscardTouchesNoPool ==
  (cl.phase = "run" /\ cl.last.call = "Discard" /\ cl.prior) => cl.poolSame

\* C5: the continuation of an Affine is invoked at most once, by at most
\* one goroutine; when every goroutine has called Resume or TryResume and
\* returned, it was invoked exactly once, one call succeeded and every
\* other call was refused (panic for Resume, false for TryResume).
C5_AffineInvokedOnce ==
  /\ aff.calls <= 1
  /\ Cardinality({t \in Threads : thr[t].pc = "call" \/ thr[t].out = "ok"}) <= 1
  /\ (\A t \in Threads : thr[t].op \in Resumers /\ thr[t].pc = "done") =>
       /\ aff.calls = 1
       /\ Cardinality({t \in Threads : thr[t].out = "ok"}) = 1
       /\ \A t \in Threads :
            thr[t].out # "ok" => thr[t].out = Refused(thr[t].op)

C5_Witness ==
  /\ \A t \in Threads : thr[t].op = "Resume" /\ thr[t].pc = "done"
  /\ aff.calls = 1
  /\ Cardinality({t \in Threads : thr[t].out = "panic"}) = NumThreads - 1

\* C6: Discard invokes no resume; once a Suspension or an Affine has been
\* discarded while fresh, every Resume panics and every TryResume returns
\* false, no resume is invoked and no further suspension is handed out.
C6_DiscardStops ==
  /\ cl.phase = "run" =>
       /\ cl.last.call = "Discard" => cl.ran = 0 /\ ~cl.last.next
       /\ (cl.last.call \in Resumers /\ cl.priorFresh) =>
            /\ cl.last.kind = Refused(cl.last.call)
            /\ cl.last.call = "Resume" => cl.last.msg = DoubleResume
            /\ cl.ran = 0
            /\ ~cl.last.next
  /\ aff.disc =>
       /\ aff.calls = 0
       /\ \A t \in Threads :
            /\ thr[t].pc # "call"
            /\ (thr[t].op \in Resumers /\ thr[t].pc = "done") =>
                 thr[t].out = Refused(thr[t].op)

C6_Witness ==
  /\ cl.phase = "run"
  /\ cl.last.call = "Resume"
  /\ cl.priorFresh
  /\ cl.last.kind = "panic"

\* C3: of the goroutines that call Resume or TryResume on one Suspension, at
\* most one gets past the guard and advances the computation.
C3_OneWinner ==
  cl.phase = "conc" =>
    Cardinality({t \in Threads :
                   thr[t].pc \in {"eval", "write"} \/ thr[t].out = "ok"}) <= 1

\* C7: no step lowers the use counter of a Suspension.
C7_CounterAdvances ==
  [][\A s \in 1..Len(mem.susp) : mem'.susp[s].used >= mem.susp[s].used]_vars

(***************************************************************************)
(* Properties of whole runs.  Naive is the reference: a recursive          *)
(* evaluator of the program text that asks the handler as it goes.         *)
(***************************************************************************)
RECURSIVE Naive(_, _, _)
Naive(tm, hs, tr) ==
  CASE tm.t = "Ret" -> [kind |-> "val", v |-> tm.e.c, hs |-> hs, trace |-> tr]
    [] tm.t = "Get" ->
         [kind |-> "val", v |-> hs, hs |-> hs, trace |-> Append(tr, GetOp)]
    [] tm.t = "Put" ->
         [kind |-> "val", v |-> 0, hs |-> tm.e.c,
          trace |-> Append(tr, PutOp(tm.e.c))]
    [] tm.t = "Throw" ->
         [kind |-> "short", v |-> tm.e.c, hs |-> hs,
          trace |-> Append(tr, ThrowOp(tm.e.c))]
    [] tm.t = "Unhandled" ->
         [kind |-> "panic", v |-> 0, hs |-> hs,
          trace |-> Append(tr, composeUnhandledOp)]
    [] tm.t = "Bind" ->
         LET r == Naive(tm.m, hs, tr) IN
         IF r.kind # "val" THEN r ELSE Naive(Inst(tm.body, r.v), r.hs, r.trace)
    [] tm.t = "Map" ->
         LET r == Naive(tm.m, hs, tr) IN
         IF r.kind # "val" THEN r ELSE [r EXCEPT !.v = ApplyG(tm.g, r.v)]
    [] tm.t = "Then" ->
         LET r == Naive(tm.m, hs, tr) IN
         IF r.kind # "val" THEN r ELSE Naive(tm.n, r.hs, r.trace)
    [] tm.t = "GetState" -> Naive(TBind(TGet, tm.body), hs, tr)
    [] tm.t = "PutState" -> Naive(TThen(TPut(tm.e), tm.n), hs, tr)

Expected == Naive(run.prog, run.hs0, << >>)

IsPrefix(a, b) == Len(a) <= Len(b) /\ \A i \in 1..Len(a) : a[i] = b[i]

\* the result r of a runner is the reference's
AsExpected(r) ==
  /\ r.kind = Expected.kind
  /\ r.v = Expected.v
  /\ r.trace = Expected.trace
  /\ r.hs = Expected.hs

StepsOneByOne(d) ==
  /\ IsPrefix(d.ops, Expected.trace)
  /\ d.pc = "susp" => Len(d.ops) = d.resumes + 1
  /\ (d.pc = "done" /\ d.kind = "val") =>
       /\ Len(d.ops) = d.resumes
       /\ d.ops = Expected.trace
       /\ d.v = Expected.v
  /\ (d.pc = "done" /\ run.prog = LetProgram /\ run.hs0 = TestState) =>
       /\ d.ops = <<GetOp, PutOp(TestState + 10), GetOp>>
       /\ d.kind = "val"
       /\ d.v = TestState + 10

\* C8: in a loop around Step or StepExpr the operations exposed so far are
\* the first operations of the program in order, one more than the Resumes
\* that succeeded while the loop is suspended, and all of them, with the
\* reference's final value, when it has completed: Get, Put, Get and 15 for
\* 'let s = Get in Put(s+10); Get' from state 5.
C8_OneOperationPerResume ==
  run.phase = "run" => StepsOneByOne(run.s) /\ StepsOneByOne(run.sx)

C8_Witness ==
  /\ run.phase = "run"
  /\ run.prog = LetProgram
  /\ run.hs0 = TestState
  /\ run.s.pc = "done" /\ run.s.resumes = 3 /\ run.s.v = 15
  /\ run.sx.pc = "done" /\ run.sx.resumes = 3 /\ run.sx.v = 15

\* C9: Handle(m, h), HandleExpr(Reify(m), h) and the loop around Step give
\* the same final result and ask the handler the same operations in the
\* same order.
C9_RunnersAgree ==
  (run.phase = "run" /\ run.h.done /\ run.r.done /\ run.s.pc = "done") =>
     /\ run.r = run.h
     /\ run.s.kind = run.h.kind
     /\ run.s.v = run.h.v
     /\ run.s.asked = run.h.trace
     /\ run.s.hs = run.h.hs

C9_Witness ==
  /\ run.phase = "run"
  /\ run.h.done /\ run.r.done /\ run.s.pc = "done"
  /\ run.h.kind = "val"
  /\ Len(run.h.trace) = 4
  /\ run.r.trace = run.h.trace

\* C10: Handle and HandleExpr ask the handler the operations the reference
\* evaluator asks, in its order, and end with its value and handler state,
\* whatever the nesting of the program.
C10_OrderOfReference ==
  run.phase = "run" =>
     /\ run.h.done => AsExpected(run.h)
     /\ run.x.done => AsExpected(run.x)

C10_Witness ==
  /\ run.phase = "run"
  /\ run.prog = TThen(TThen(TThen(TPut(Const(2)), TGet), TPut(Const(6))), TGet)
  /\ run.h.done /\ run.x.done
  /\ run.x.trace = <<PutOp(2), GetOp, PutOp(6), GetOp>>
  /\ run.x.v = 6

\* C11: Handle(Reflect(Reify(m)), h) and Handle(m, h) end with the same
\* value, ask the handler the same operations in the same order and leave
\* it in the same state.
C11_ReflectReifyIsIdentity ==
  (run.phase = "run" /\ run.rr.done /\ run.h.done) => run.rr = run.h

C11_Witness ==
  /\ run.phase = "run"
  /\ run.rr.done /\ run.h.done
  /\ run.prog = TGetState(TPutState(VarPlus(10), TGet))
  /\ run.rr.trace = <<GetOp, PutOp(run.hs0 + 10), GetOp>>
  /\ run.rr.v = run.hs0 + 10

\* C12: HandleExpr(Reify(Reflect(e)), h) and HandleExpr(e, h) end with the
\* same value, ask the handler the same operations in the same order and
\* leave it in the same state.
C12_ReifyReflectIsIdentity ==
  (run.phase = "run" /\ run.xr.done /\ run.x.done) => run.xr = run.x

C12_Witness ==
  /\ run.phase = "run"
  /\ run.xr.done /\ run.x.done
  /\ run.prog = LetProgram
  /\ run.xr.trace = <<GetOp, PutOp(run.hs0 + 10), GetOp>>
  /\ run.xr.v = run.hs0 + 10

\* C13: when Dispatch answers (v, false) the evaluation ends at once with v:
\* the operation is the last one dispatched and no Bind, Map or Then
\* continuation is applied after it, on the closure path (h) and on the
\* frame path (x), whether the effect frame is the current frame or the
\* first element of a chain.
ShortCircuited(res, M) ==
  M.cut.set =>
    /\ res.kind = "short"
    /\ res.v = M.cut.v
    /\ Len(res.trace) = M.cut.n
    /\ M.applied = M.cut.applied
    /\ res.hs = M.hs

C13_ShortCircuitEndsAtOnce ==
  /\ run.phase = "run" /\ run.h.done => ShortCircuited(run.h, run.hm)
  /\ run.phase = "run" /\ run.x.done => ShortCircuited(run.x, run.xm)

C13_Witness ==
  /\ run.phase = "run"
  /\ run.prog = AbortProgram
  /\ ExprBuild(run.prog).Frame.t = "Chain"
  /\ run.h.done /\ run.hm.cut.set /\ run.h.v = 77
  /\ run.x.done /\ run.xm.cut.set /\ run.x.v = 77
  /\ run.x.trace = <<ThrowOp(77)>>
  /\ run.xm.applied = 0

\* C14: when an evaluation has finished, by reaching the Return frame or by
\* a short-circuit of the handler, every chain node taken from chainPool and
\* every marker taken from genericMarkerPool during it is back in its pool,
\* once.
Occurrences(seq, x) == Cardinality({i \in 1..Len(seq) : seq[i] = x})

PoolBalanced(M) ==
  /\ \A id \in 1..Len(M.nodes) : Occurrences(M.cfree, id) = 1
  /\ \A id \in 1..Len(M.markers) : Occurrences(M.mfree, id) = 1

C14_PooledNodesReleasedOnce ==
  /\ run.phase = "run" /\ run.h.done => PoolBalanced(run.hm)
  /\ run.phase = "run" /\ run.x.done => PoolBalanced(run.xm)

\* C15: an Expr built with the public constructors gives, every time it is
\* evaluated by RunPure, HandleExpr or StepExpr, the value, the operation
\* sequence and the final handler state that the first evaluation of that
\* kind gave, and no evaluation zeroes or pools one of its nodes.
C15_PublicExprReusable ==
  (run.phase = "reuse" /\ run.public) =>
     /\ run.n > 0 => run.last = run.first[run.kind]
     /\ mem.zeroed = {}

C15_Witness ==
  /\ run.phase = "reuse" /\ run.public
  /\ run.e = ExprBuild(LetProgram)
  /\ run.n = MaxEvals
  /\ run.kind = "StepExpr"
  /\ run.first["HandleExpr"].done /\ run.first["StepExpr"].done
  /\ run.last.trace = <<GetOp, PutOp(run.hs0 + 10), GetOp>>
  /\ run.last.v = run.hs0 + 10
  /\ mem.kept > 0

\* C16: a release zeroes and pools an object only when its pooled flag is
\* set; released with the flag unset, the object is left as it is.  So a
\* chain node made by ChainFrames, or a frame made by user code, is never
\* zeroed and never enters a pool, however often it is released.
C16_UnpooledReleaseIsNoOp ==
  run.phase = "reuse" =>
     /\ \A f \in mem.zeroed : f.pooled
     /\ \A id \in 1..Len(mem.cfree) : mem.cfree[id] \in 1..Len(mem.nodes)
     /\ run.public => live(run.e.Frame, mem) = run.e.Frame

\* frames with the flag set have been zeroed, others have been released and
\* left alone, in one evaluation
C16_Witness ==
  /\ run.phase = "reuse" /\ ~run.public
  /\ run.n = 1
  /\ run.last.kind = "val"
  /\ mem.kept > 0
  /\ Cardinality(mem.zeroed) = 3

\* the object has a pooled field
Flagged(obj) == "pooled" \in DOMAIN obj

\* chain nodes: the flag is set exactly while the node is out of chainPool
NodeFlags(M) ==
  \A id \in 1..Len(M.nodes) :
     Flagged(M.nodes[id]) /\ (M.nodes[id].pooled <=> Occurrences(M.cfree, id) = 0)

\* markers: the same for genericMarkerPool
MarkerFlags(M) ==
  \A id \in 1..Len(M.markers) :
     Flagged(M.markers[id])
       /\ (M.markers[id].pooled <=> Occurrences(M.mfree, id) = 0)

\* C17: every pooled object, markers included, carries a flag that is set
\* exactly while the object is checked out of its pool.
C17_PooledObjectsCarryFlag ==
  /\ run.phase = "run" /\ run.h.done => NodeFlags(run.hm) /\ MarkerFlags(run.hm)
  /\ run.phase = "run" /\ run.x.done => NodeFlags(run.xm) /\ MarkerFlags(run.xm)

\* C18: a frame of unknown type makes the evaluation panic, with the message
\* "kont: unknown frame type" when it is the current frame and with
\* "kont: unknown frame type in chain" when it is the first element of a
\* chain node.
C18_UnknownFrameMessages ==
  (run.phase = "reuse" /\ run.n > 0 /\ run.kind = "RunPure") =>
     /\ run.e = UnwindPanicNonChained =>
           /\ run.last.kind = "panic"
           /\ run.last.msg = "kont: unknown frame type"
     /\ run.e = UnwindPanicChained =>
           /\ run.last.kind = "panic"
           /\ run.last.msg = "kont: unknown frame type in chain"

\* an evaluation of UnhandledProgram stopped at the operation the handler
\* has no capability for, with a panic of message msg: the Put before it
\* is in the handler's state, nothing after it was dispatched, and the
\* function of the Bind around it was not applied
UnhandledStops(msg) ==
  (run.phase = "reuse" /\ run.prog = UnhandledProgram /\ run.n > 0
     /\ run.kind # "RunPure") =>
       /\ run.last.kind = "panic"
       /\ run.last.msg = msg
       /\ run.last.trace = <<PutOp(3), composeUnhandledOp>>
       /\ run.last.hs = 3
       /\ (run.kind # "StepExpr" /\ run.d.pc = "start") => mem.applied = 1

RECURSIVE StateAfter(_, _)
StateAfter(tr, hs0) ==
  IF tr = << >> THEN hs0
  ELSE LET op == tr[Len(tr)] IN
       IF op.o = "Put" THEN op.v ELSE StateAfter(SubSeq(tr, 1, Len(tr) - 1), hs0)

\* a finished run that dispatched a Throw: the Throw is the last operation
\* dispatched, the result is the error thrown (the Left of the Either) and
\* the state is the one the operations before the Throw left
ThrowKeepsState(r) ==
  (r.done /\ \E i \in 1..Len(r.trace) : r.trace[i].o = "Throw") =>
     /\ r.trace[Len(r.trace)].o = "Throw"
     /\ \A i \in 1..(Len(r.trace) - 1) : r.trace[i].o # "Throw"
     /\ r.kind = "short"
     /\ r.v = r.trace[Len(r.trace)].v
     /\ r.hs = StateAfter(r.trace, run.hs0)

Called(f, M) == Cardinality({i \in 1..Len(M.calls) : M.calls[i][1] = f})

\* the result res and the calls of running Catch(body, h) under RunError,
\* against the body and the handler run on their own
CatchLaw(c, res, calls) ==
  LET b == RunError(c.body, EmptyMem) IN
  IF b.res.tag = "short"
  THEN LET e == b.res.v
           hr == RunError(Inst(c.handler, e), EmptyMem)
       IN /\ res = hr.res
          /\ calls = b.M.calls \o <<(<<"handler", e>>)>> \o hr.M.calls
  ELSE /\ res = b.res
       /\ calls = b.M.calls

\* C21: under the Error handler, CatchError(body, h) gives the body's value
\* without calling h when the body completes, and continues with h(e) when
\* the body throws e; what h(e) throws is thrown to the enclosing scope,
\* where an outer Catch handles it or RunError returns it as Left.
C21_CatchRecovers ==
  (run.phase = "fx" /\ run.done /\ run.runner = "RunError") =>
     /\ run.prog.t = "Catch" => CatchLaw(run.prog, run.res, mem.calls)
     /\ run.prog = TCatch(TThrow(Const(7)), TRet(Const(99))) =>
          run.res = ValR(IntV(99))
     /\ run.prog = TCatch(TRet(Const(42)), TRet(Const(99))) =>
          run.res = ValR(IntV(42)) /\ mem.calls = << >>
     /\ run.prog = TCatch(TThrow(Const(7)), TThrow(VarPlus(100))) =>
          run.res = ShortR(IntV(107))
     /\ run.prog = TBind(TCatch(TThrow(Const(7)), TRet(VarPlus(1))),
                         TRet(VarPlus(1000))) =>
          run.res = ValR(IntV(1008))

\* the handler of the inner Catch rethrows and the outer Catch recovers
C21_Witness ==
  /\ run.phase = "fx" /\ run.done
  /\ run.prog = TCatch(TCatch(TThrow(Const(7)), TThrow(VarPlus(100))),
                       TRet(VarPlus(1)))
  /\ run.res = ValR(IntV(108))
  /\ mem.calls = <<(<<"handler", 7>>), (<<"handler", 107>>)>>

\* C22: chaining three frames to the left or to the right gives the same
\* final value, the same operations in the same order and the same final
\* state of the handler, from any starting value.
C22_ChainAssociative ==
  (run.phase = "fx" /\ run.done /\ run.runner = "HandleExpr") =>
     run.res = run.res2

\* a left-nested chain that the evaluator rotates, with operations on both
\* sides of the rotation
C22_Witness ==
  /\ run.phase = "fx" /\ run.done /\ run.runner = "HandleExpr"
  /\ run.prog.a = EffectFrame(GetOp, identityResume, ReturnFrame)
  /\ run.prog.b = BindFrame(UserF(TThen(TPut(VarPlus(2)), TGet)), ReturnFrame)
  /\ run.prog.c = MapFrame("dbl", MapFrame("inc", ReturnFrame))
  /\ run.prog.hs = TestState
  /\ run.res.kind = "val"
  /\ run.res.v = 2 * (TestState + 2) + 1
  /\ run.res.trace = <<GetOp, PutOp(TestState + 2), GetOp>>
  /\ run.res2 = run.res

\* chainFromPool took a node for first and rest out of the memory M
Acquired(pab, first, rest, M) ==
  /\ pab.frame.t = "ChainRef"
  /\ pab.M.nodes[pab.frame.id] = [first |-> first, rest |-> rest, pooled |-> TRUE]
  /\ Occurrences(pab.M.cfree, pab.frame.id) = 0
  /\ \/ M.cfree # << >> /\ pab.frame.id = Head(M.cfree)
        /\ pab.M.cfree = Tail(M.cfree) /\ Len(pab.M.nodes) = Len(M.nodes)
     \/ M.cfree = << >> /\ pab.frame.id = Len(M.nodes) + 1
        /\ pab.M.cfree = << >>

\* C23: ChainFrames and chainFromPool return the other operand itself when
\* one operand is ReturnFrame, making no node; only with two operands that
\* are not ReturnFrame does ChainFrames make a node and chainFromPool take
\* one from the pool.
C23_ChainElidesReturn ==
  (run.phase = "fx" /\ run.done /\ run.runner = "HandleExpr") =>
     LET a == run.prog.a
         b == run.prog.b
     IN
     /\ a = ReturnFrame => run.ab = b /\ run.pab = [frame |-> b, M |-> mem]
     /\ b = ReturnFrame => run.ab = a /\ run.pab = [frame |-> a, M |-> mem]
     /\ (a # ReturnFrame /\ b # ReturnFrame) =>
          /\ run.ab = chainedFrame(a, b)
          /\ Acquired(run.pab, a, b, mem)

\* an elision on each side, and a node taken from a pool that has one
C23_Witness ==
  /\ run.phase = "fx" /\ run.done /\ run.runner = "HandleExpr"
  /\ run.prog.a # ReturnFrame /\ run.prog.b # ReturnFrame
  /\ mem.cfree # << >>
  /\ run.pab.frame = ChainRef(Head(mem.cfree))
  /\ ChainFrames(ReturnFrame, run.ab) = run.ab
  /\ ChainFrames(run.ab, ReturnFrame) = run.ab

\* The rest f of a computation, run on its own from the value v: the value
\* it ends with and how many continuations it applied, its own included.
RestOf(f, v) == Run(Inst(f, v), EmptyMem)
RestRan(r) == [v |-> r.r.v, n |-> r.M.applied + 1]

\* What the function h given to Shift returns when every k(v) is a run of
\* the rest f on its own, and how many continuations these runs applied.
RECURSIVE KVal(_, _)
KVal(h, f) ==
  CASE h.h = "lit" -> [v |-> h.n, n |-> 0]
    [] h.h = "k" ->
         LET a == KVal(h.a, f)
             r == RestRan(RestOf(f, a.v))
         IN [v |-> r.v, n |-> a.n + r.n]
    [] h.h = "add" ->
         LET l == KVal(h.l, f)
             r == KVal(h.r, f)
         IN [v |-> l.v + r.v, n |-> l.n + r.n]
    [] h.h = "mul" ->
         LET l == KVal(h.l, f)
             r == KVal(h.r, f)
         IN [v |-> l.v * r.v, n |-> l.n + r.n]

\* how often h calls k
RECURSIVE KCalls(_)
KCalls(h) ==
  CASE h.h = "lit" -> 0
    [] h.h = "k" -> 1 + KCalls(h.a)
    [] OTHER -> KCalls(h.l) + KCalls(h.r)

RanShift == run.phase = "fx" /\ run.done /\ run.runner = "Run"

\* C24: the function given to Shift may call the captured continuation k
\* no, one or many times; every k(v) runs the rest of the computation on v
\* independently of the other calls (k(1) + k(10) over x -> x * 2 is 22),
\* and when k is never called the rest does not run.
C24_ShiftCallsAreIndependent ==
  (RanShift /\ run.prog \in ShiftOnce) =>
     LET h == run.prog.m.h
         f == run.prog.body
     IN
     /\ run.res = [tag |-> "val", v |-> KVal(h, f).v, msg |-> ""]
     /\ mem.applied = KVal(h, f).n
     /\ KCalls(h) = 0 => mem.applied = 0 /\ run.res.v = h.n
     /\ KCalls(h) > 0 => mem.applied >= KCalls(h)
     /\ (h = Add(KCall(Lit(1)), KCall(Lit(10)))
            /\ f = TMap(TRet(VarPlus(0)), "dbl")) => run.res.v = 22

\* k was called three times and the three runs of the rest add up
C24_Witness ==
  /\ RanShift
  /\ run.prog = TBind(TShift(Add(Add(KCall(Lit(1)), KCall(Lit(2))),
                                 KCall(Lit(3)))),
                      TMap(TRet(VarPlus(0)), "dbl"))
  /\ run.res.v = 12
  /\ mem.applied = 6

\* C25: a Shift inside Reset(m) captures the computation up to that Reset
\* only; what follows the Reset is not part of k and runs exactly once,
\* with the result of the Reset.
C25_ResetDelimitsShift ==
  (RanShift /\ run.prog \in ShiftPrograms \ ShiftOnce) =>
     LET m == run.prog.m.m
         g == run.prog.body
         inside == KVal(m.m.h, m.body)
         after == RestRan(RestOf(g, inside.v))
     IN
     /\ run.res = [tag |-> "val", v |-> after.v, msg |-> ""]
     /\ mem.applied = inside.n + after.n

\* k called twice inside the Reset, and the continuation of the Reset ran
\* once: (1 * 2 + 10 * 2) + 100, not (1 * 2 + 100) + (10 * 2 + 100)
C25_Witness ==
  /\ RanShift
  /\ run.prog = TBind(TReset(TBind(TShift(Add(KCall(Lit(1)), KCall(Lit(10)))),
                                   TMap(TRet(VarPlus(0)), "dbl"))),
                      TRet(VarPlus(100)))
  /\ run.res.v = 122
  /\ mem.applied = 5

\* The result and the output of a writing computation taken on its own,
\* by the structure of the computation.
RECURSIVE WVal(_)
WVal(tm) ==
  CASE tm.t = "Ret" -> [v |-> tm.e.c, out |-> << >>]
    [] tm.t = "RetVal" -> [v |-> tm.v, out |-> << >>]
    [] tm.t = "Tell" -> [v |-> 0, out |-> <<tm.e.c>>]
    [] tm.t = "Then" ->
         LET a == WVal(tm.m)
             b == WVal(tm.n)
         IN [v |-> b.v, out |-> a.out \o b.out]
    [] tm.t = "Bind" ->
         LET a == WVal(tm.m)
             b == WVal(Inst(tm.body, a.v))
         IN [v |-> b.v, out |-> a.out \o b.out]
    [] tm.t = "Listen" ->
         LET b == WVal(tm.body)
         IN [v |-> Pair(b.v, b.out), out |-> b.out]
    [] tm.t = "Censor" ->
         LET b == WVal(tm.body)
         IN [v |-> b.v, out |-> ApplyCensor(tm.F, b.out)]

RanWriter == run.phase = "fx" /\ run.done /\ run.runner = "RunWriter"
\* the operation between the two Tells of Around
Inside(p) == p.n.m

\* C26: Listen(body) returns the result of body paired with exactly the
\* outputs body appended, in order, and the total output holds the outputs
\* before, of the body, and after, in program order.
C26_ListenPairsBodyOutput ==
  (RanWriter /\ run.prog \in ListenPrograms) =>
     LET b == WVal(Inside(run.prog).body) IN
     /\ run.res = [tag |-> "val", v |-> Pair(b.v, b.out), msg |-> ""]
     /\ mem.out = <<1>> \o b.out \o <<3>>

\* the body listened to wrote 3 and 4 after a 1 written before the Listen
C26_Witness ==
  /\ RanWriter
  /\ Inside(run.prog) =
       TListen(TBind(TThen(TTell(Const(3)), TRet(Const(8))),
                     TThen(TTell(VarPlus(1)), TRet(VarPlus(10)))))
  /\ run.res.v = Pair(18, <<3, 9>>)
  /\ mem.out = <<1, 3, 9, 3>>

\* C27: Censor(f, body) replaces exactly the outputs of body by f applied
\* to them; the output before is as it was, later output follows, and the
\* result of body is passed on unchanged.
C27_CensorRewritesBodyOutput ==
  (RanWriter /\ run.prog \in CensorPrograms) =>
     LET b == WVal(Inside(run.prog).body)
         F == Inside(run.prog).F
     IN
     /\ run.res = [tag |-> "val", v |-> b.v, msg |-> ""]
     /\ mem.out = <<1>> \o ApplyCensor(F, b.out) \o <<3>>

\* the secret of the body redacted, the 1 before it and the 3 after it not
C27_Witness ==
  /\ RanWriter
  /\ Inside(run.prog) =
       TCensor("redact", TThen(TTell(Const(2)),
                               TThen(TTell(Const(4)), TRet(Const(7)))))
  /\ run.res.v = 7
  /\ mem.out = <<1, Redacted, 4, 3>>

\* the calls of the functions given to Bracket, in order
IsBracketCall(c) == c[1] \in {"use", "release"}
BracketCalls(M) == SelectSeq(M.calls, IsBracketCall)

\* the result res and the calls of Bracket under RunError, against acquire,
\* use and release run on their own
BracketLaw(b, res, calls) ==
  LET a == RunError(b.acquire, EmptyMem).res IN
  IF a.tag = "short"
  THEN /\ res = a
       /\ calls = << >>
  ELSE LET u == RunError(Inst(b.use, a.v), EmptyMem).res
           r == RunError(Inst(b.release, a.v), EmptyMem).res
       IN /\ calls = <<(<<"use", a.v>>), (<<"release", a.v>>)>>
          /\ u.tag \in {"val", "short"}
          /\ res = IF r.tag = "short" THEN r
                   ELSE [tag |-> "val",
                         v |-> IF u.tag = "val" THEN Right(u.v) ELSE Left(u.v),
                         msg |-> ""]

\* C28: Bracket(acquire, release, use) calls release exactly once, after
\* use has finished, whether use completed (the result is Right(value)) or
\* threw (Left(error)); when acquire fails neither use nor release is
\* called.
C28_BracketReleasesOnce ==
  (run.phase = "fx" /\ run.done /\ run.runner = "RunError"
     /\ run.prog \in BracketPrograms) =>
       /\ BracketLaw(run.prog, run.res, BracketCalls(mem))
       /\ Called("release", mem) <= 1
       /\ Called("release", mem) = Called("use", mem)

\* use threw 43 on the resource 42 and release was called once after it
C28_Witness ==
  /\ run.phase = "fx" /\ run.done /\ run.runner = "RunError"
  /\ run.prog = TBracket(TRet(Const(42)), TRet(Const(0)), TThrow(VarPlus(1)))
  /\ run.res.tag = "val"
  /\ run.res.v = Left(43)
  /\ mem.calls = <<(<<"use", 42>>), (<<"release", 42>>)>>

\* C29: a computation that finishes with a nil Resumed value is reported as
\* completed with the zero value of the answer type by every entry point:
\* Handle, the Run runners, Step, Reify, HandleExpr and StepExpr.
C29_NilCompletesWithZero ==
  (run.phase = "fx" /\ run.done /\ run.runner = "Nil") =>
     run.res = ValR(ZeroV)

\* the entry points of the closure form do report the zero value
C29_ClosureEntriesCompleteWithZero ==
  (run.phase = "fx" /\ run.done /\ run.runner = "Nil"
     /\ run.prog.entry \notin {"HandleExpr", "StepExpr"}) =>
       run.res = ValR(ZeroV)

\* HandleExpr and StepExpr end in the panic of the type assertion
C29_ExprEntriesPanic ==
  /\ run.phase = "fx" /\ run.done /\ run.runner = "Nil"
  /\ run.prog.entry \in {"HandleExpr", "StepExpr"}
  /\ run.res = PanicR(NilConversion)

RanBuild == run.phase = "fx" /\ run.done /\ run.runner = "Build"

\* how many continuations a program applies when it runs with the closure
\* form from the handler state TestState, and the value it ends with
AloneRun(tm) == Handle(tm, [EmptyMem EXCEPT !.hs = TestState])

\* C30: when the frame of m is Return, ExprBind(m, f) is f(m.Value) and
\* ExprMap(m, f) is the Return of f(m.Value), f being applied when the
\* Expr is built and not when it is evaluated, and ExprThen(m, n) is n
\* itself; otherwise a Bind, Map or Then frame with Next = Return is
\* chained after the frame of m by ChainFrames.
C30_EagerOnReturn ==
  RanBuild =>
    LET p == run.prog
        b == run.built[1]
        mp == run.built[2]
        th == run.built[3]
    IN
    /\ p.m.Frame = ReturnFrame =>
         /\ b.e = ExprBuild(Inst(p.body, p.m.Value.v))
         /\ b.res = AloneRun(Inst(p.body, p.m.Value.v)).res
         /\ b.applied = AloneRun(Inst(p.body, p.m.Value.v)).M.applied
         /\ mp.e = ExprReturn(IntV(ApplyG(p.g, p.m.Value.v)))
         /\ mp.res = ValR(IntV(ApplyG(p.g, p.m.Value.v)))
         /\ mp.applied = 0
         /\ th.e = p.n
    /\ p.m.Frame # ReturnFrame =>
         /\ b.e = Expr(ZeroV, ChainFrames(p.m.Frame,
                                           BindFrame(UserF(p.body), ReturnFrame)))
         /\ mp.e = Expr(ZeroV, ChainFrames(p.m.Frame,
                                            MapFrame(p.g, ReturnFrame)))
         /\ th.e = Expr(ZeroV, ChainFrames(p.m.Frame,
                                            ThenFrame(p.n, ReturnFrame)))
         /\ b.e.Frame # p.m.Frame /\ mp.e.Frame # p.m.Frame
         /\ th.e.Frame # p.m.Frame
         /\ b.applied >= 1 /\ mp.applied >= 1 /\ th.applied >= 1

\* ExprBind on the Return of 42 is the Return of 45 already, and its
\* evaluation applies nothing
C30_Witness ==
  /\ RanBuild
  /\ run.prog.m = ExprReturn(IntV(42))
  /\ run.prog.body = TRet(VarPlus(3))
  /\ run.built[1].e = ExprReturn(IntV(45))
  /\ run.built[1].applied = 0
  /\ run.built[1].res = ValR(IntV(45))
  /\ run.built[2].e = ExprReturn(IntV(ApplyG(run.prog.g, 42)))
  /\ run.built[3].e = run.prog.n

RanAssoc == run.phase = "fx" /\ run.done /\ run.runner = "Assoc"

\* C31: Bind(Bind(m, f), g) and Bind(m, x -> Bind(f(x), g)) end with the
\* same value and hand the handler the same operations in the same order,
\* with Bind under Handle and with ExprBind under HandleExpr, also when m,
\* f(x) and g(y) perform effects.
C31_BindAssociative ==
  RanAssoc =>
    /\ run.built[1] = run.built[2]
    /\ run.built[3] = run.built[4]

\* m, f(x) and g(y) all perform effects and both nestings agree
C31_Witness ==
  /\ RanAssoc
  /\ run.prog = [m |-> TThen(TPut(Const(3)), TGet),
                 f |-> TThen(TPut(VarPlus(2)), TGet),
                 g |-> TMap(TPut(VarPlus(1)), "inc"), hs |-> TestState]
  /\ run.built[1].kind = "val"
  /\ run.built[1].trace = <<PutOp(3), GetOp, PutOp(5), GetOp, PutOp(6)>>
  /\ run.built[1].hs = 6
  /\ run.built[2] = run.built[1]
  /\ run.built[3].trace = run.built[1].trace
  /\ run.built[4] = run.built[3]

RanDeep == run.phase = "fx" /\ run.done /\ run.runner = "Deep"

\* C32: RunPure ends with the right value on every pure frame chain, of
\* any length and nesting, and evalFrames works through the chain in its
\* loop: it is never entered again while it runs, so the depth of calls
\* stays one, and each frame is applied once.
C32_RunPureIterative ==
  RanDeep =>
    /\ run.res = ValR(IntV(run.prog.n))
    /\ mem.deep = 1
    /\ mem.depth = 0
    /\ mem.applied = run.prog.n

\* the longest left-nested chain, which the loop rotates as it goes
C32_Witness ==
  /\ RanDeep
  /\ run.prog = [shape |-> "left", n |-> MaxChain]
  /\ run.res.v = MaxChain
  /\ mem.deep = 1
  /\ mem.applied = MaxChain

(***************************************************************************)
(* C33: a composed handler asks for the capabilities in its fixed order    *)
(* and gives the operation to the first one the operation has: Reader,     *)
(* then State, then Error for the Reader, State and Error handler; State,  *)
(* then Error for the State and Error handler; State first in the State    *)
(* and Reader and the State and Writer handlers.  The answer is the answer *)
(* of that capability's method alone: the environment from Reader, the     *)
(* state from State, the short-circuit with the error from Error, one more *)
(* output from Writer; with no capability the dispatch panics with the     *)
(* handler's name.                                                         *)
(***************************************************************************)
RanDispatch == run.phase = "eval" /\ run.runner = "Dispatch" /\ run.done

\* the capabilities of the operation dispatched
Advertised == Capabilities(run.prog.op)

\* what the method of each capability leaves behind
ByReader ==
  /\ run.built = <<IntV(TestEnv), TRUE>>
  /\ mem.hs = run.prog.hs /\ mem.out = << >> /\ ~mem.cut.set
ByState ==
  /\ run.built[2]
  /\ IF run.prog.op.o = "Put"
     THEN run.built[1] = Unit /\ mem.hs = run.prog.op.v
     ELSE run.built[1] = IntV(run.prog.hs) /\ mem.hs = run.prog.hs
  /\ mem.out = << >> /\ ~mem.cut.set
ByError ==
  /\ run.built = <<IntV(run.prog.op.v), FALSE>>
  /\ mem.cut.set /\ mem.cut.v = run.prog.op.v
  /\ mem.hs = run.prog.hs /\ mem.out = << >>
ByWriter ==
  /\ run.built = <<Unit, TRUE>>
  /\ mem.out = <<run.prog.op.v>>
  /\ mem.hs = run.prog.hs /\ ~mem.cut.set
ByNone ==
  /\ run.built = <<unhandledEffect(run.prog.h \o "Handler"), FALSE>>
  /\ mem.hs = run.prog.hs /\ mem.out = << >> /\ ~mem.cut.set

C33_ComposedDispatchOrder ==
  RanDispatch =>
    CASE run.prog.h = "ReaderStateError" ->
           IF "Reader" \in Advertised THEN ByReader
           ELSE IF "State" \in Advertised THEN ByState
           ELSE IF "Error" \in Advertised THEN ByError
           ELSE ByNone
      [] run.prog.h = "StateError" ->
           IF "State" \in Advertised THEN ByState
           ELSE IF "Error" \in Advertised THEN ByError
           ELSE ByNone
      [] run.prog.h = "StateReader" ->
           IF "State" \in Advertised THEN ByState
           ELSE IF "Reader" \in Advertised THEN ByReader
           ELSE ByNone
      [] run.prog.h = "StateWriter" ->
           IF "State" \in Advertised THEN ByState
           ELSE IF "Writer" \in Advertised THEN ByWriter
           ELSE ByNone

\* an operation with the three capabilities went to Reader, and one with
\* State and Error went to State
C33_Witness ==
  /\ RanDispatch
  /\ run.prog.h = "ReaderStateError"
  /\ run.prog.op = UserOp({"Reader", "State", "Error"})
  /\ run.prog.hs = TestState
  /\ run.built = <<IntV(TestEnv), TRUE>>
  /\ ~mem.cut.set
(***************************************************************************)
(* C34: a marker goes back to the marker pool at most once for each time   *)
(* it was taken, whatever Resume, TryResume and Discard calls are made on  *)
(* the Suspension that holds it: the pool never holds a marker twice, and  *)
(* a marker that a later Perform has taken again, and that its Suspension  *)
(* has not yet been called on, is not zeroed by a call on the Suspension   *)
(* that held it before.                                                    *)
(***************************************************************************)
\* the pool holds no marker twice
C34_PoolHoldsMarkerOnce ==
  cl.phase = "run" =>
    \A id \in 1..Len(mem.markers) : Occurrences(mem.mfree, id) <= 1

\* the marker of a handle the client has not called on keeps its fields
C34_LiveMarkerKeepsFields ==
  cl.phase = "run" =>
    \A j \in 1..Len(cl.h) :
       (j \notin cl.hdone /\ mem.susp[cl.h[j]].cont # 0) =>
          mem.markers[mem.susp[cl.h[j]].cont] # ZeroMarker

C34_MarkerReleasedOnce ==
  C34_PoolHoldsMarkerOnce /\ C34_LiveMarkerKeepsFields
(***************************************************************************)
(* C35: in evalFrames every pooled node (chain node, Bind, Then or Effect  *)
(* frame) is put back into its pool after its fields were read and before  *)
(* a new node is made from those fields, in each branch of the flatten     *)
(* phase and of the direct step: no chain node is ever built from the      *)
(* fields of a pooled node that has not been put back.                     *)
(***************************************************************************)
RanPooled == run.phase = "eval" /\ run.runner = "Pooled" /\ run.done

C35_ReleasedBeforeNodesAreBuilt == RanPooled => mem.early = {}

\* the chain nodes and the Bind and Then frames are put back first
C35_ChainBindThenReleasedFirst ==
  RanPooled => mem.early \cap {"ChainRef", "Bind", "Then"} = {}
(***************************************************************************)
(* C36: the Expr that Reify(m) returns can be evaluated more than once:    *)
(* the second evaluation under a handler that starts from the same state   *)
(* hands the handler the same operations and ends with the same value as   *)
(* the first, and it resumes no marker that the first evaluation has put   *)
(* back into the pool.                                                     *)
(***************************************************************************)
RanReified == run.phase = "eval" /\ run.runner = "Reified" /\ run.done

C36_ReifiedExprReusable ==
  RanReified =>
    /\ run.built[2] = run.built[1]
    /\ run.built[2].kind # "panic"

\* a Reify of a computation without operations is an ExprReturn and can be
\* evaluated again
C36_PureReifiedExprReusable ==
  (RanReified /\ run.built[1].trace = << >>) => run.built[2] = run.built[1]
(***************************************************************************)
(* C37: when an EffectFrame whose Next is not Return is the first element  *)
(* of a chain, the frames of its Next run after the handler has resumed    *)
(* it, and the rest of the chain after them: ExprBind(Reify(m), f) and     *)
(* ExprMap(Reify(m), g) hand the handler every operation of m, in order,   *)
(* before the function added runs, and end like Bind(m, f) and Map(m, g)   *)
(* run by Handle; a pooled EffectFrame with a Map frame as its Next, first *)
(* of a chain, applies that Map before the rest of the chain.              *)
(***************************************************************************)
RanComposed == run.phase = "eval" /\ run.runner = "Composed" /\ run.done

\* Get answers hs, the Next of the effect frame adds one, the rest doubles
EffectNextThenRest ==
  (/\ RanPooled
   /\ run.prog.entry = "HandleExpr"
   /\ run.prog.frame =
        ChainFrames(AcquireEffectFrame(GetOp, identityResume,
                                       MapFrame("inc", ReturnFrame)),
                    MapFrame("dbl", ReturnFrame)))
    => run.res = ValR(IntV(2 * (run.prog.hs + 1)))

C37_EffectNextRunsBeforeRest ==
  /\ RanComposed => run.built[1] = run.built[2] /\ run.built[3] = run.built[4]
  /\ EffectNextThenRest

\* TestReifyComposedWithExprBind: Get, Put(s + 10), Get, then a + 100
C37_Witness ==
  /\ RanComposed
  /\ run.prog.tm = TGetState(TPutState(VarPlus(10), TGet))
  /\ run.prog.body = TRet(VarPlus(100))
  /\ run.prog.hs = TestState
  /\ run.built[1].kind = "val" /\ run.built[1].v = 115
  /\ run.built[1].hs = 15
  /\ run.built[1].trace = <<GetOp, PutOp(15), GetOp>>
(***************************************************************************)
(* C38: an UnwindFrame is evaluated, as the current frame and as the first *)
(* element of a chain, by calling its reducer with Data1, Data2, Data3 and *)
(* the current value and going on with the value and the frame the reducer *)
(* returns; it is never taken for a frame of unknown type.  The reducer    *)
(* here returns the sum of its four arguments and the Return frame.        *)
(***************************************************************************)
RanUnwind == run.phase = "eval" /\ run.runner = "Unwind" /\ run.done

\* the UnwindFrame of the case, alone or first of its chain
UnwindFirst ==
  IF run.prog.frame.t = "Chain" THEN run.prog.frame.first ELSE run.prog.frame

\* what the reducer returns for the current value of the case
Reduced ==
  UnwindFirst.Data1 + UnwindFirst.Data2 + UnwindFirst.Data3 + run.prog.v

C38_UnwindFrameReduced ==
  (RanUnwind /\ UnwindFirst.t = "Unwind") =>
     run.res = ValR(IntV(IF run.prog.frame.t = "Chain" THEN 2 * Reduced
                         ELSE Reduced))

\* a frame type with an Unwind method is evaluated by that method
C38_UnwindMethodCalled ==
  (RanUnwind /\ UnwindFirst.t = "Custom") =>
     run.res = ValR(IntV(IF run.prog.frame.t = "Chain"
                         THEN 2 * (run.prog.v + UnwindFirst.Val)
                         ELSE run.prog.v + UnwindFirst.Val))

\* an UnwindFrame ends the evaluation with the panic of a frame type that
\* has no Unwind method
C38_UnwindFramePanics ==
  (RanUnwind /\ UnwindFirst.t = "Unwind") => run.res = PanicR(UnknownFrame)
(***************************************************************************)
(* C39: the body of a Listen, Censor or Catch is evaluated by a handler of *)
(* its own effect family alone.  An operation of another family performed  *)
(* in the body, a Get or a Put under the State and Writer or the State and *)
(* Error handler, is not given to the composed handler that dispatched the *)
(* Listen, Censor or Catch: the run panics with the unhandled effect of    *)
(* the WriterHandler or the ErrorHandler, the state stays what the Put     *)
(* before the body made it, and nothing after the body runs.  A body of    *)
(* the same family alone runs to its end and the program after it too.     *)
(***************************************************************************)
RanScoped == run.phase = "eval" /\ run.runner = "Scoped" /\ run.done

InternalHandler == IF run.prog.scope = "Catch" THEN "ErrorHandler"
                   ELSE "WriterHandler"

C39_ScopedBodyOwnFamilyOnly ==
  RanScoped =>
    IF run.prog.foreign
    THEN /\ run.res = PanicR("kont: unhandled effect in " \o InternalHandler)
         /\ mem.hs = 3
         /\ mem.h = run.prog.h
    ELSE /\ run.res.tag = "val"
         /\ mem.hs = 9

\* a Put in the body of a Listen under the State and Writer handler
C39_Witness ==
  /\ RanScoped
  /\ run.prog.h = "StateWriter"
  /\ run.prog.scope = "Listen"
  /\ run.prog.body = TPut(Const(8))
  /\ run.res = PanicR("kont: unhandled effect in WriterHandler")
  /\ mem.hs = 3
  /\ mem.trace = <<PutOp(3), ListenOp(TPut(Const(8))), PutOp(8)>>
====
